---- MODULE Spec2Model ----
(***************************************************************************)
(* Model of the Google Calendar skill: the interval engine of              *)
(* CalendarClient / availability-helper (mergeTimeSlots, findGaps,         *)
(* findAvailableSlots, findMutualAvailability, analyzeTimeUsage), the      *)
(* intent classifier and entity extractor of natural-language.ts           *)
(* (INTENT_PATTERNS, detectIntent, extractEntities) and the parsers of     *)
(* date-utils (parseTimeExpression, parseDuration, parseDateExpression).   *)
(*                                                                         *)
(* Instants are integers (ticks).  The code measures instants in           *)
(* milliseconds, 60000 to the minute; the model scales that down to        *)
(* TicksPerMinute ticks to the minute and TicksPerDay ticks to the local   *)
(* day, keeping the rounding of getDurationMinutes and the truncation of   *)
(* getStartOfDay.                                                          *)
(***************************************************************************)
EXTENDS Integers, Sequences, FiniteSets, TLC

\* ------------------------------------------------------------------ bounds
MaxTime == 4
TicksPerMinute == 2
TicksPerDay == 3
MaxSlots == 3
MaxBusy == 2
MaxWords == 3

Times == 0..MaxTime

VARIABLES
    pc,          \* which operation has run
    heap,        \* the TimeSlot objects: object id -> [start, end, duration]
    before,      \* the value of every object when the operation was called
    slots,       \* the array handed to mergeTimeSlots (object ids)
    merged,      \* the array mergeTimeSlots returned (object ids)
    mergedVals,  \* the start/end/duration of merged when it was returned
    merged2,     \* the array a second mergeTimeSlots, on merged, returned
    busyTimes,   \* the Map getFreeBusy returned: per calendar, its busy slots (object ids)
    startDate,   \* the window and the minimum duration of the availability query
    endDate,
    minDuration,
    gaps,        \* the slots the availability query returned
    query,       \* the text handed to detectIntent, as a sequence of atoms
    intent,      \* what detectIntent returned
    text,        \* the text handed to a parser of date-utils or to extractEntities
    shape,       \* the parts the text was written from
    today,       \* the weekday of `new Date()`, 0 = Sunday
    parsed,      \* what the parser returned
    entities,    \* what extractEntities returned
    events,      \* the events listEvents returned to analyzeTimeUsage
    summary,     \* the TimeUsageSummary analyzeTimeUsage returned
    lastIndex,   \* the lastIndex of every pattern of INTENT_PATTERNS
    calls,       \* the calls of detectIntent so far: query and returned intent
    searchQuery, \* the query of the command or of searchEvents
    apiReply,    \* how the calendar API settled the last request
    apiCalls,    \* the requests issued to the calendar API
    found,       \* the search result a command works from
    result,      \* what the operation resolved to
    authModule,  \* which auth module is linked: auth.ts, or the one with the project paths
    tokenFiles,  \* the token files of the project root and of the home directory
    filesBefore, \* the token files as they were before the call
    projectWritable, \* whether files can be created in the project root
    clock,       \* Date.now()
    credentials, \* oauth2Client.credentials
    refresh,     \* how refreshAccessToken went, when it was called
    outcome,     \* what the call returned or threw
    receivedCode, \* receivedCode, "" for null
    serverListening, \* whether the callback server accepts requests
    callbackPromise, \* the promise of startCallbackServer: none, pending or resolved
    timer,       \* the 5-minute timer: none, armed or fired
    requests,    \* the requests the callback server has handled
    prompted,    \* whether the manual prompt was shown
    exchanged,    \* the code handed to getTokensFromCode, "" before
    browserOpened, \* whether execSync opened the sign-in page
    busySlots,   \* the busy slots handed to suggestOptimalTimes
    preferences, \* the preferences handed to suggestOptimalTimes
    available,   \* the slots findAvailableSlots found
    suggested    \* the slots suggestOptimalTimes returned

mergeVars == <<heap, before, slots, merged, mergedVals, merged2>>
queryVars == <<busyTimes, startDate, endDate, minDuration, gaps>>
intentVars == <<query, intent>>
textVars == <<text, shape, today, parsed, entities>>
usageVars == <<events, summary>>
callVars == <<lastIndex, calls>>
clientVars == <<searchQuery, apiReply, apiCalls, found, result>>
authVars == <<authModule, tokenFiles, filesBefore, projectWritable, clock, credentials, refresh, outcome>>
flowVars == <<receivedCode, serverListening, callbackPromise, timer, requests, prompted, exchanged,
              browserOpened>>
suggestVars == <<busySlots, preferences, available, suggested>>
vars == <<pc, mergeVars, queryVars, intentVars, textVars, usageVars, callVars, clientVars, authVars, flowVars, suggestVars>>

\* null and undefined
Null == [null |-> TRUE]

\* no text has been parsed, no events analysed
TextIdle ==
    /\ text = <<>>
    /\ shape = Null
    /\ today = 0
    /\ parsed = Null
    /\ entities = Null

UsageIdle ==
    /\ events = <<>>
    /\ summary = Null

\* detectIntent has not been called
CallIdle ==
    /\ lastIndex = <<>>
    /\ calls = <<>>

\* the other parts at rest
MergeIdle ==
    /\ heap = <<>>
    /\ before = <<>>
    /\ slots = <<>>
    /\ merged = <<>>
    /\ mergedVals = <<>>
    /\ merged2 = <<>>

QueryIdle ==
    /\ busyTimes = <<>>
    /\ startDate = 0
    /\ endDate = 0
    /\ minDuration = 0
    /\ gaps = <<>>

IntentIdle ==
    /\ query = <<>>
    /\ intent = "none"

\* no operation of the client has been called
ClientIdle ==
    /\ searchQuery = <<>>
    /\ apiReply = Null
    /\ apiCalls = <<>>
    /\ found = Null
    /\ result = Null

\* no token file is looked at
AuthIdle ==
    /\ authModule = "none"
    /\ tokenFiles = Null
    /\ filesBefore = Null
    /\ projectWritable = FALSE
    /\ clock = 0
    /\ credentials = Null
    /\ refresh = "none"
    /\ outcome = Null

\* the authentication script has not run
FlowIdle ==
    /\ receivedCode = ""
    /\ serverListening = FALSE
    /\ callbackPromise = "none"
    /\ timer = "none"
    /\ requests = <<>>
    /\ prompted = FALSE
    /\ exchanged = ""
    /\ browserOpened = FALSE

\* no meeting time has been asked for
SuggestIdle ==
    /\ busySlots = <<>>
    /\ preferences = Null
    /\ available = <<>>
    /\ suggested = <<>>

\* ------------------------------------------------------------ date-utils
\* Math.round(x / TicksPerMinute): Math.round rounds half up
getDurationMinutes(s, e) == (2 * (e - s) + TicksPerMinute) \div (2 * TicksPerMinute)

\* d.setHours(0, 0, 0, 0)
getStartOfDay(d) == d - (d % TicksPerDay)

\* d.setHours(23, 59, 59, 999): the last instant of the day
getEndOfDay(d) == getStartOfDay(d) + TicksPerDay - 1

\* the minimum durations asked for: up to the longest duration on the timeline
MaxMinDuration == getDurationMinutes(0, MaxTime)

\* ---------------------------------------------------------------- TimeSlot
TimeSlot(s, e) == [start |-> s, end |-> e, duration |-> getDurationMinutes(s, e)]

\* well-formed slots as getFreeBusy builds them: start <= end, duration computed
WellFormedSlots == {TimeSlot(p[1], p[2]) : p \in {q \in Times \X Times : q[1] <= q[2]}}

RECURSIVE SeqsUpTo(_, _)
SeqsUpTo(S, n) ==
    IF n = 0 THEN {<<>>}
    ELSE LET shorter == SeqsUpTo(S, n - 1)
         IN shorter \cup {Append(q, x) : q \in {r \in shorter : Len(r) = n - 1}, x \in S}

Ids(h) == [i \in 1..Len(h) |-> i]

\* the start/end/duration values of an array of objects
Vals(h, ids) == [i \in 1..Len(ids) |-> h[ids[i]]]

\* ----------------------------------------------------------- mergeTimeSlots
\* Array.prototype.sort with (a, b) => a.start - b.start; the sort is stable
RECURSIVE InsertByStart(_, _, _)
InsertByStart(h, s, x) ==
    IF s = <<>> THEN <<x>>
    ELSE IF h[x].start < h[Head(s)].start THEN <<x>> \o s
    ELSE <<Head(s)>> \o InsertByStart(h, Tail(s), x)

RECURSIVE SortByStart(_, _)
SortByStart(h, s) ==
    IF s = <<>> THEN <<>>
    ELSE InsertByStart(h, SortByStart(h, SubSeq(s, 1, Len(s) - 1)), s[Len(s)])

\* MergeLoop comparing with the previous sorted slot instead of the last kept one
RECURSIVE MergeLoopPrev(_, _, _, _)
MergeLoopPrev(h, sorted, i, acc) ==
    IF i > Len(sorted) THEN [heap |-> h, merged |-> acc]
    ELSE LET current == sorted[i]
             last == acc[Len(acc)]
         IN IF h[current].start <= h[sorted[i - 1]].end
            THEN IF h[current].end > h[last].end
                 THEN MergeLoopPrev([h EXCEPT ![last] =
                                        [start |-> @.start,
                                         end |-> h[current].end,
                                         duration |-> getDurationMinutes(@.start, h[current].end)]],
                                    sorted, i + 1, acc)
                 ELSE MergeLoopPrev(h, sorted, i + 1, acc)
            ELSE MergeLoopPrev(h, sorted, i + 1, Append(acc, current))

\* MergeLoop without the test current.end > last.end: the end is always overwritten
RECURSIVE MergeLoopNoGuard(_, _, _, _)
MergeLoopNoGuard(h, sorted, i, acc) ==
    IF i > Len(sorted) THEN [heap |-> h, merged |-> acc]
    ELSE LET current == sorted[i]
             last == acc[Len(acc)]
         IN IF h[current].start <= h[last].end
            THEN MergeLoopNoGuard([h EXCEPT ![last] =
                                      [start |-> @.start,
                                       end |-> h[current].end,
                                       duration |-> getDurationMinutes(@.start, h[current].end)]],
                                  sorted, i + 1, acc)
            ELSE MergeLoopNoGuard(h, sorted, i + 1, Append(acc, current))

\* MergeLoop with current.start < last.end: touching slots are kept apart
RECURSIVE MergeLoopStrict(_, _, _, _)
MergeLoopStrict(h, sorted, i, acc) ==
    IF i > Len(sorted) THEN [heap |-> h, merged |-> acc]
    ELSE LET current == sorted[i]
             last == acc[Len(acc)]
         IN IF h[current].start < h[last].end
            THEN IF h[current].end > h[last].end
                 THEN MergeLoopStrict([h EXCEPT ![last] =
                                          [start |-> @.start,
                                           end |-> h[current].end,
                                           duration |-> getDurationMinutes(@.start, h[current].end)]],
                                      sorted, i + 1, acc)
                 ELSE MergeLoopStrict(h, sorted, i + 1, acc)
            ELSE MergeLoopStrict(h, sorted, i + 1, Append(acc, current))

\* the for loop of mergeTimeSlots from index i on; `last` is an object of the
\* input array, so extending it writes to the caller's object
RECURSIVE MergeLoop(_, _, _, _)
MergeLoop(h, sorted, i, acc) ==
    IF i > Len(sorted) THEN [heap |-> h, merged |-> acc]
    ELSE LET current == sorted[i]
             last == acc[Len(acc)]
         IN IF h[current].start <= h[last].end
            THEN IF h[current].end > h[last].end
                 THEN MergeLoop([h EXCEPT ![last] =
                                    [start |-> @.start,
                                     end |-> h[current].end,
                                     duration |-> getDurationMinutes(@.start, h[current].end)]],
                                sorted, i + 1, acc)
                 ELSE MergeLoop(h, sorted, i + 1, acc)
            ELSE MergeLoop(h, sorted, i + 1, Append(acc, current))

mergeTimeSlots(h, arr) ==
    IF Len(arr) = 0 THEN [heap |-> h, merged |-> <<>>]
    ELSE LET sorted == SortByStart(h, arr)
         IN MergeLoop(h, sorted, 2, <<sorted[1]>>)

\* ------------------------------------------------------------ merge machine
InitMerge ==
    /\ SuggestIdle
    /\ FlowIdle
    /\ AuthIdle
    /\ ClientIdle
    /\ CallIdle
    /\ pc = "start"
    /\ heap \in SeqsUpTo(WellFormedSlots, MaxSlots)
    /\ before = heap
    /\ slots = Ids(heap)
    /\ merged = <<>>
    /\ mergedVals = <<>>
    /\ merged2 = <<>>
    /\ busyTimes = <<>>
    /\ startDate = 0
    /\ endDate = 0
    /\ minDuration = 0
    /\ gaps = <<>>
    /\ query = <<>>
    /\ intent = "none"
    /\ TextIdle
    /\ UsageIdle

\* merged = mergeTimeSlots(slots)
Merge ==
    /\ pc = "start"
    /\ LET r == mergeTimeSlots(heap, slots)
       IN /\ heap' = r.heap
          /\ merged' = r.merged
          /\ mergedVals' = Vals(r.heap, r.merged)
    /\ pc' = "merged"
    /\ UNCHANGED <<before, slots, merged2, queryVars, intentVars, textVars, usageVars, callVars, clientVars, authVars, flowVars, suggestVars>>

\* merged2 = mergeTimeSlots(merged)
MergeAgain ==
    /\ pc = "merged"
    /\ LET r == mergeTimeSlots(heap, merged)
       IN /\ heap' = r.heap
          /\ merged2' = r.merged
    /\ pc' = "merged2"
    /\ UNCHANGED <<before, slots, merged, mergedVals, queryVars, intentVars, textVars, usageVars, callVars, clientVars, authVars, flowVars, suggestVars>>

NextMerge == Merge \/ MergeAgain

SpecMerge == InitMerge /\ [][NextMerge]_vars

\* ------------------------------------------------------- claims on merging
\* an instant is a tick p or the open stretch between p and p + 1
CoversPoint(vs, p) == \E i \in 1..Len(vs) : vs[i].start <= p /\ p <= vs[i].end
CoversStretch(vs, p) == \E i \in 1..Len(vs) : vs[i].start <= p /\ p + 1 <= vs[i].end

\* C1: merging the result of a merge returns the same sequence of
\* start/end/duration values as the first merge did.
MergeIdempotent ==
    pc = "merged2" => Vals(heap, merged2) = mergedVals

\* a merge that extended a slot, collapsed the input and kept two slots, merged again
MergeIdempotentWitness ==
    /\ pc = "merged2"
    /\ heap # before
    /\ Len(merged) = 2
    /\ Len(slots) = 3

\* C2: the instants covered by the merged slots are exactly the instants the
\* input slots covered when mergeTimeSlots was called, and every input slot
\* lies inside some merged slot.
MergeCoverage ==
    pc = "merged" =>
        /\ \A p \in Times : CoversPoint(mergedVals, p) <=> CoversPoint(before, p)
        /\ \A p \in Times : CoversStretch(mergedVals, p) <=> CoversStretch(before, p)
        /\ \A i \in 1..Len(before) : \E j \in 1..Len(mergedVals) :
               /\ mergedVals[j].start <= before[i].start
               /\ before[i].end <= mergedVals[j].end
               /\ mergedVals[j].end - mergedVals[j].start >= before[i].end - before[i].start

\* an unsorted input whose first slot contains a later, shorter one
MergeCoverageWitness ==
    /\ pc = "merged"
    /\ Len(before) = 3
    /\ \E i, j \in 1..Len(before) :
          /\ i < j
          /\ before[j].start < before[i].start
          /\ before[i].start < before[j].end
          /\ before[j].end < before[i].end
    /\ Len(merged) < Len(slots)

\* C3: the merged slots are strictly apart and in order (end < next start),
\* each has start <= end and duration = getDurationMinutes(start, end), and
\* an empty input gives an empty result.
MergedSortedApart ==
    pc = "merged" =>
        /\ \A i \in 1..(Len(mergedVals) - 1) : mergedVals[i].end < mergedVals[i + 1].start
        /\ \A i \in 1..Len(mergedVals) :
               /\ mergedVals[i].start <= mergedVals[i].end
               /\ mergedVals[i].duration = getDurationMinutes(mergedVals[i].start, mergedVals[i].end)
        /\ (slots = <<>> => merged = <<>>)

\* two input slots that merely touch were collapsed, and another slot kept apart
MergedSortedApartWitness ==
    /\ pc = "merged"
    /\ \E i, j \in 1..Len(before) :
          /\ before[i].start < before[i].end
          /\ before[i].end = before[j].start
          /\ before[j].start < before[j].end
    /\ Len(merged) = 2

\* C4: after mergeTimeSlots returns, every slot object of the input has the
\* start, end and duration it had before the call.
MergeLeavesInputUnchanged ==
    pc = "merged" => Vals(heap, slots) = before

\* ------------------------------------------------------------------ findGaps
\* GapLoop keeping a stretch only when it is longer than minDuration
RECURSIVE GapLoopStrict(_, _, _, _, _)
GapLoopStrict(busy, i, current, minDur, acc) ==
    IF i > Len(busy) THEN [current |-> current, gaps |-> acc]
    ELSE LET b == busy[i]
             gapDuration == getDurationMinutes(current, b.start)
             acc2 == IF b.start > current /\ gapDuration > minDur
                     THEN Append(acc, [start |-> current, end |-> b.start, duration |-> gapDuration])
                     ELSE acc
         IN GapLoopStrict(busy, i + 1, IF b.end > current THEN b.end ELSE current, minDur, acc2)

\* GapLoop without the test busy.start > current
RECURSIVE GapLoopNoGuard(_, _, _, _, _)
GapLoopNoGuard(busy, i, current, minDur, acc) ==
    IF i > Len(busy) THEN [current |-> current, gaps |-> acc]
    ELSE LET b == busy[i]
             gapDuration == getDurationMinutes(current, b.start)
             acc2 == IF gapDuration >= minDur
                     THEN Append(acc, [start |-> current, end |-> b.start, duration |-> gapDuration])
                     ELSE acc
         IN GapLoopNoGuard(busy, i + 1, IF b.end > current THEN b.end ELSE current, minDur, acc2)

\* the loop `for (const busy of busySlots)` from index i on, with its cursor
\* `current` and the gaps pushed so far
RECURSIVE GapLoop(_, _, _, _, _)
GapLoop(busy, i, current, minDur, acc) ==
    IF i > Len(busy) THEN [current |-> current, gaps |-> acc]
    ELSE LET b == busy[i]
             gapDuration == getDurationMinutes(current, b.start)
             acc2 == IF b.start > current /\ gapDuration >= minDur
                     THEN Append(acc, [start |-> current, end |-> b.start, duration |-> gapDuration])
                     ELSE acc
         IN GapLoop(busy, i + 1, IF b.end > current THEN b.end ELSE current, minDur, acc2)

\* FinalGap without the minimum-duration test
FinalGapNoMin(r, end, minDur) ==
    IF r.current < end
    THEN Append(r.gaps, [start |-> r.current, end |-> end,
                         duration |-> getDurationMinutes(r.current, end)])
    ELSE r.gaps

\* `// Check final gap`: the stretch from the cursor to `end`
FinalGap(r, end, minDur) ==
    LET gapDuration == getDurationMinutes(r.current, end)
    IN IF r.current < end /\ gapDuration >= minDur
       THEN Append(r.gaps, [start |-> r.current, end |-> end, duration |-> gapDuration])
       ELSE r.gaps

\* `let current = getStartOfDay(start)`: where the cursor starts
CursorStart(start) == getStartOfDay(start)

\* CalendarClient.findGaps(start, end, busySlots, minDuration); busy holds the
\* values of busySlots
findGaps(start, end, busy, minDur) ==
    FinalGap(GapLoop(busy, 1, CursorStart(start), minDur, <<>>), end, minDur)

\* availability-helper findAvailableSlots(busySlots, startDate, endDate, minDuration):
\* sorts a copy of busySlots, then the same loop; the final stretch runs to
\* getEndOfDay(endDate)
findAvailableSlots(h, busyIds, start, end, minDur) ==
    LET sorted == Vals(h, SortByStart(h, busyIds))
    IN FinalGap(GapLoop(sorted, 1, CursorStart(start), minDur, <<>>), getEndOfDay(end), minDur)

\* only the first calendar's busy slots are collected
AllBusyFirstOnly(m) == IF m = <<>> THEN <<>> ELSE Head(m)

\* `for (const slots of data.values()) allBusyTimes.push(...slots)`
RECURSIVE AllBusy(_)
AllBusy(m) == IF m = <<>> THEN <<>> ELSE Head(m) \o AllBusy(Tail(m))

\* ------------------------------------------------------ availability machine
\* getFreeBusy answered for ['primary', attendee]: fresh slot objects, the
\* primary calendar's first
InitAvail ==
    /\ SuggestIdle
    /\ FlowIdle
    /\ AuthIdle
    /\ ClientIdle
    /\ CallIdle
    /\ pc = "idle"
    /\ heap \in SeqsUpTo(WellFormedSlots, MaxBusy)
    /\ \E k \in 0..MaxBusy :
          /\ k <= Len(heap)
          /\ busyTimes = <<[i \in 1..k |-> i], [i \in 1..(Len(heap) - k) |-> k + i]>>
    /\ before = heap
    /\ slots = <<>>
    /\ merged = <<>>
    /\ mergedVals = <<>>
    /\ merged2 = <<>>
    /\ startDate = 0
    /\ endDate = 0
    /\ minDuration = 0
    /\ gaps = <<>>
    /\ query = <<>>
    /\ intent = "none"
    /\ TextIdle
    /\ UsageIdle

\* CalendarClient.findAvailableSlots({startDate, endDate, duration, attendeeEmails})
\* once getFreeBusy has succeeded: combine, merge, find the gaps
ClientFindAvailableSlots ==
    /\ pc = "idle"
    /\ LET allBusyTimes == AllBusy(busyTimes)
           r == mergeTimeSlots(heap, allBusyTimes)
       IN /\ slots' = allBusyTimes
          /\ heap' = r.heap
          /\ merged' = r.merged
    /\ mergedVals' = Vals(heap', merged')
    /\ \E s \in Times, e \in Times, d \in 0..MaxMinDuration :
          /\ startDate' = s
          /\ endDate' = e
          /\ minDuration' = d
          /\ gaps' = findGaps(s, e, mergedVals', d)
    /\ pc' = "client"
    /\ UNCHANGED <<before, merged2, busyTimes, intentVars, textVars, usageVars, callVars, clientVars, authVars, flowVars, suggestVars>>

\* availability-helper findMutualAvailability(calendarBusyTimes, startDate, endDate, minDuration)
FindMutualAvailability ==
    /\ pc = "idle"
    /\ LET allBusy == AllBusy(busyTimes)
           r == mergeTimeSlots(heap, allBusy)
       IN /\ slots' = allBusy
          /\ heap' = r.heap
          /\ merged' = r.merged
    /\ mergedVals' = Vals(heap', merged')
    /\ \E s \in Times, e \in Times, d \in 0..MaxMinDuration :
          /\ startDate' = s
          /\ endDate' = e
          /\ minDuration' = d
          /\ gaps' = findAvailableSlots(heap', merged', s, e, d)
    /\ pc' = "mutual"
    /\ UNCHANGED <<before, merged2, busyTimes, intentVars, textVars, usageVars, callVars, clientVars, authVars, flowVars, suggestVars>>

NextAvail == ClientFindAvailableSlots \/ FindMutualAvailability

SpecAvail == InitAvail /\ [][NextAvail]_vars

\* --------------------------------------------------------- gap-finder machine
\* the merged, sorted busy sets: what mergeTimeSlots returns
MergedBusySets ==
    {LET r == mergeTimeSlots(h, Ids(h)) IN Vals(r.heap, r.merged) :
        h \in SeqsUpTo(WellFormedSlots, MaxSlots)}

InitGaps ==
    /\ SuggestIdle
    /\ FlowIdle
    /\ AuthIdle
    /\ ClientIdle
    /\ CallIdle
    /\ pc = "busy"
    /\ mergedVals \in MergedBusySets
    /\ heap = mergedVals
    /\ before = mergedVals
    /\ slots = <<>>
    /\ merged = Ids(mergedVals)
    /\ merged2 = <<>>
    /\ busyTimes = <<>>
    /\ startDate = 0
    /\ endDate = 0
    /\ minDuration = 0
    /\ gaps = <<>>
    /\ query = <<>>
    /\ intent = "none"
    /\ TextIdle
    /\ UsageIdle

\* gaps = findGaps(startDate, endDate, mergedBusyTimes, minDuration)
FindGaps ==
    /\ pc = "busy"
    /\ \E s \in Times, e \in Times, d \in 0..MaxMinDuration :
          /\ startDate' = s
          /\ endDate' = e
          /\ minDuration' = d
          /\ gaps' = findGaps(s, e, mergedVals, d)
    /\ pc' = "gaps"
    /\ UNCHANGED <<mergeVars, busyTimes, intentVars, textVars, usageVars, callVars, clientVars, authVars, flowVars, suggestVars>>

NextGaps == FindGaps

SpecGaps == InitGaps /\ [][NextGaps]_vars

\* --------------------------------------------------- claims on the gap finder
Max(S) == CHOOSE x \in S : \A y \in S : y <= x

Range(s) == {s[i] : i \in 1..Len(s)}

\* no slot of gs overlaps a slot of bs (isSlotAvailable's test)
NoOverlap(gs, bs) ==
    \A i \in 1..Len(gs), j \in 1..Len(bs) :
        ~(bs[j].start < gs[i].end /\ bs[j].end > gs[i].start)

\* the cursor when the walk reaches the i-th busy slot
CursorAt(busy, i, start) ==
    Max({CursorStart(start)} \cup {busy[j].end : j \in 1..(i - 1)})

\* the free stretches the walk meets: [cursor, busy.start] for each busy slot
\* that starts after the cursor, and [cursor, end] if the cursor ends before end
FreeStretches(busy, start, end) ==
    {<<CursorAt(busy, i, start), busy[i].start>> :
        i \in {k \in 1..Len(busy) : busy[k].start > CursorAt(busy, k, start)}}
    \cup (IF CursorAt(busy, Len(busy) + 1, start) < end
          THEN {<<CursorAt(busy, Len(busy) + 1, start), end>>}
          ELSE {})

\* C5: no returned gap starts before windowStart.
GapsStartInWindow ==
    pc = "gaps" => \A i \in 1..Len(gaps) : gaps[i].start >= startDate

\* the ticks and the stretches between ticks of a window of positive length
WindowPoints == IF startDate < endDate THEN {p \in Times : startDate <= p /\ p <= endDate} ELSE {}
WindowStretches == {p \in Times : startDate <= p /\ p + 1 <= endDate}

\* C6 as stated: whatever minDuration is, the returned gaps and the busy
\* slots cover the window, and no returned gap overlaps a busy slot.
GapBusyPartition ==
    pc = "gaps" =>
        /\ \A p \in WindowPoints : CoversPoint(gaps, p) \/ CoversPoint(mergedVals, p)
        /\ \A p \in WindowStretches : CoversStretch(gaps, p) \/ CoversStretch(mergedVals, p)
        /\ NoOverlap(gaps, mergedVals)

\* C6 as amended: every instant of the window lies in a busy slot, in a
\* returned gap, or in a free stretch whose duration in minutes is below
\* minDuration (so for minDuration 0 gaps and busy slots cover the window);
\* no returned gap overlaps a busy slot.
GapBusyPartitionUpToMinDuration ==
    pc = "gaps" =>
        LET short == {s \in FreeStretches(mergedVals, startDate, endDate) :
                         getDurationMinutes(s[1], s[2]) < minDuration}
        IN /\ \A p \in WindowPoints :
                \/ CoversPoint(gaps, p)
                \/ CoversPoint(mergedVals, p)
                \/ \E s \in short : s[1] <= p /\ p <= s[2]
           /\ \A p \in WindowStretches :
                \/ CoversStretch(gaps, p)
                \/ CoversStretch(mergedVals, p)
                \/ \E s \in short : s[1] <= p /\ p + 1 <= s[2]
           /\ (minDuration = 0 => short = {})
           /\ NoOverlap(gaps, mergedVals)

\* a window holding a busy slot, a returned gap and a free stretch left out as too short
GapBusyPartitionWitness ==
    /\ pc = "gaps"
    /\ minDuration > 0
    /\ Len(gaps) >= 1
    /\ \E i \in 1..Len(mergedVals) :
          /\ startDate <= mergedVals[i].start
          /\ mergedVals[i].end <= endDate
    /\ \E p \in WindowStretches : ~CoversStretch(gaps, p) /\ ~CoversStretch(mergedVals, p)

\* C7: the returned gaps are in chronological order without overlap
\* (gap[i].end <= gap[i+1].start) and each has start < end.
GapsChronological ==
    pc = "gaps" =>
        /\ \A i \in 1..(Len(gaps) - 1) : gaps[i].end <= gaps[i + 1].start
        /\ \A i \in 1..Len(gaps) : gaps[i].start < gaps[i].end

\* two gaps returned for a window with windowStart >= windowEnd and a busy slot past its end
GapsChronologicalWitness ==
    /\ pc = "gaps"
    /\ startDate >= endDate
    /\ Len(gaps) >= 2
    /\ \E i \in 1..Len(mergedVals) : mergedVals[i].start > endDate

\* C8: the returned slots are exactly the free stretches whose duration in
\* minutes is >= minDuration, each once, with duration =
\* getDurationMinutes(start, end).
MinimumDurationRule ==
    pc = "gaps" =>
        LET kept == {s \in FreeStretches(mergedVals, startDate, endDate) :
                        getDurationMinutes(s[1], s[2]) >= minDuration}
        IN /\ {<<g.start, g.end>> : g \in Range(gaps)} = kept
           /\ Len(gaps) = Cardinality(kept)
           /\ \A g \in Range(gaps) :
                /\ g.duration = getDurationMinutes(g.start, g.end)
                /\ g.duration >= minDuration

\* one stretch of exactly minDuration minutes returned, a shorter one left out
MinimumDurationRuleWitness ==
    /\ pc = "gaps"
    /\ minDuration > 0
    /\ \E g \in Range(gaps) : g.duration = minDuration
    /\ \E s \in FreeStretches(mergedVals, startDate, endDate) :
          getDurationMinutes(s[1], s[2]) < minDuration

\* C9: no slot returned by CalendarClient.findAvailableSlots or by
\* findMutualAvailability overlaps a busy slot of any calendar, as the
\* free/busy answer gave it.
BusyAnywhereBlocks ==
    pc \in {"client", "mutual"} => NoOverlap(gaps, before) /\ NoOverlap(gaps, heap)

\* both calendars busy, the attendee's busy slot inside the window, and a slot returned
BusyAnywhereBlocksWitness ==
    /\ pc = "client"
    /\ Len(busyTimes[1]) >= 1
    /\ \E j \in 1..Len(busyTimes[2]) :
          LET b == before[busyTimes[2][j]]
          IN startDate < b.start /\ b.start < b.end /\ b.end <= endDate
    /\ Len(gaps) >= 1

\* ------------------------------------------------------- regular expressions
\* A query is a sequence of atoms: words (or pieces of a word, where a pattern
\* can match inside it, as `schedule` inside `reschedule`) and single spaces.
\* A pattern is a sequence of elements; every INTENT_PATTERNS regex carries
\* the flag i only, so RegExp.prototype.test keeps no state between calls.
L(w) == [k |-> "lit", w |-> w, ps |-> <<>>]            \* a literal
WS == [k |-> "ws", w |-> "", ps |-> <<>>]              \* \s
SP == [k |-> "ws+", w |-> "", ps |-> <<>>]             \* \s+
SS == [k |-> "ws*", w |-> "", ps |-> <<>>]             \* \s*
END == [k |-> "end", w |-> "", ps |-> <<>>]            \* $
WB == [k |-> "wb", w |-> "", ps |-> <<>>]              \* \b
Opt(p) == [k |-> "opt", w |-> "", ps |-> <<p>>]        \* (?:p)?
Alt(ps) == [k |-> "alt", w |-> "", ps |-> ps]          \* (?:p1|p2|...)
OneOf(ws) == Alt([i \in 1..Len(ws) |-> <<L(ws[i])>>])    \* (?:w1|w2|...)

\* the flag i: letters compare without case
Lower(a) ==
    CASE a = "Move" -> "move" [] a = "List" -> "list"
      [] a = "AM" -> "am" [] a = "PM" -> "pm"
      [] a = "Monday" -> "monday" [] a = "Tomorrow" -> "tomorrow"
      [] a = "Team" -> "team" [] a = "Sync" -> "sync"
      [] OTHER -> a

IsSpace(a) == a = " "

\* \b at position i: exactly one side is a word character
AtWordBoundary(q, i) ==
    (i > 1 /\ ~IsSpace(q[i - 1])) # (i <= Len(q) /\ ~IsSpace(q[i]))

\* the positions where a match of the pattern can end, started at a position of S
RECURSIVE MatchSeq(_, _, _)
RECURSIVE MatchElem(_, _, _)
MatchElem(e, q, S) ==
    CASE e.k = "lit" -> {i + 1 : i \in {j \in S : j <= Len(q) /\ Lower(q[j]) = e.w}}
      [] e.k = "ws" -> {i + 1 : i \in {j \in S : j <= Len(q) /\ IsSpace(q[j])}}
      [] e.k = "ws+" -> {j \in 2..(Len(q) + 1) :
                            \E i \in S : i < j /\ \A m \in i..(j - 1) : IsSpace(q[m])}
      [] e.k = "ws*" -> {j \in 1..(Len(q) + 1) :
                            \E i \in S : i <= j /\ \A m \in i..(j - 1) : IsSpace(q[m])}
      [] e.k = "opt" -> S \cup MatchSeq(e.ps[1], q, S)
      [] e.k = "alt" -> UNION {MatchSeq(e.ps[n], q, S) : n \in 1..Len(e.ps)}
      [] e.k = "end" -> {i \in S : i = Len(q) + 1}
      [] e.k = "wb" -> {i \in S : AtWordBoundary(q, i)}

MatchSeq(p, q, S) ==
    IF p = <<>> THEN S ELSE MatchSeq(Tail(p), q, MatchElem(Head(p), q, S))

\* pattern.test(query): the pattern matches somewhere in the query
Test(p, q) == MatchSeq(p, q, 1..(Len(q) + 1)) # {}

\* ----------------------------------------------------------- INTENT_PATTERNS
AvailabilityPatterns == <<
    <<L("find"), SP, OneOf(<<"open", "free", "available">>), SS, Opt(<<OneOf(<<"slot", "time">>)>>)>>,
    <<L("when"), SP, Alt(<< <<L("is")>>, <<L("are")>>, <<L("can"), SP, L("i")>> >>), SP,
      OneOf(<<"i", "we", "everyone">>), SP, OneOf(<<"free", "available">>)>>,
    <<L("show"), SP, Opt(<<L("me"), SP>>), OneOf(<<"available", "free", "open">>), SP, L("time")>>,
    <<L("what"), Alt(<< <<L("'s")>>, <<L(" "), L("is")>> >>), SP, Opt(<<L("my"), SP>>),
      OneOf(<<"free", "available">>)>>,
    <<L("check"), SP, Opt(<<L("my"), SP>>), L("availability")>>,
    <<L("find"), SP, Opt(<<L("me"), SP>>), L("time")>>,
    <<L("free"), SP, OneOf(<<"slot", "time">>)>> >>

CreatePatterns == <<
    <<L("schedule"), WS>>,
    <<L("create"), SP, Opt(<<L("a"), SP>>), Opt(<<L("new"), SP>>),
      OneOf(<<"meeting", "event", "appointment">>)>>,
    <<L("book"), WS>>,
    <<L("add"), SP, Opt(<<L("a"), SP>>), OneOf(<<"meeting", "event", "appointment">>)>>,
    <<L("set"), SP, L("up"), WS>>,
    <<L("arrange"), WS>>,
    <<L("plan"), WS>> >>

ListPatterns == <<
    <<L("what"), Alt(<< <<L("'s")>>, <<L(" "), L("is")>>, <<L(" "), L("are")>> >>), SP,
      Opt(<<OneOf(<<"on", "my">>)>>), SS, Opt(<<L("my"), SP>>), L("calendar")>>,
    <<L("show"), SP, Opt(<<L("me"), SP>>), Opt(<<L("my"), SP>>),
      Opt(<<Alt(<< <<L("today")>>, <<L("this"), SP, L("week")>>, <<L("this"), SP, L("month")>> >>)>>),
      SS, L("schedule")>>,
    <<L("list"), SP, Opt(<<L("my"), SP>>),
      Opt(<<Alt(<< <<L("today")>>, <<L("this"), SP, L("week")>> >>)>>),
      SS, Opt(<<OneOf(<<"events", "meetings", "appointments">>)>>)>>,
    <<L("what"), SP, L("do"), SP, L("i"), SP, L("have")>>,
    <<L("my"), SP, Opt(<<L("upcoming"), SP>>), L("events")>> >>

GetPatterns == <<
    <<L("find"), SP, Opt(<<L("my"), SP>>), OneOf(<<"meeting", "event", "appointment">>), SP,
      OneOf(<<"with", "called", "named">>)>>,
    <<L("get"), SP, OneOf(<<"details", "info">>), Opt(<<SP, L("for")>>)>>,
    <<L("show"), SP, Opt(<<L("me"), SP>>), OneOf(<<"details", "info">>), Opt(<<SP, L("for")>>)>>,
    <<L("look"), SP, L("up")>>,
    <<L("search"), SP, Opt(<<L("for"), SP>>), Opt(<<L("my"), SP>>), OneOf(<<"meeting", "event">>)>> >>

UpdatePatterns == <<
    <<L("update"), WS>>,
    <<L("change"), WS>>,
    <<L("modify"), WS>>,
    <<L("move"), WS>>,
    <<L("re"), L("schedule"), WS>>,
    <<L("edit"), WS>>,
    <<L("shift"), WS>>,
    <<L("re"), L("schedule"), END>> >>

DeletePatterns == <<
    <<L("delete"), WS>>,
    <<L("remove"), WS>>,
    <<L("cancel"), WS>>,
    <<L("un"), L("schedule")>>,
    <<L("drop"), WS>>,
    <<L("delete"), END>>,
    <<L("remove"), END>>,
    <<L("cancel"), END>> >>

BlockPatterns == <<
    <<L("block"), SP, OneOf(<<"time", "out">>)>>,
    <<L("mark"), SP, Opt(<<L("me"), SP>>), Opt(<<L("as"), SP>>), OneOf(<<"busy", "unavailable">>)>>,
    <<L("focus"), SP, OneOf(<<"time", "block">>)>>,
    <<L("out"), SP, L("of"), SP, L("office")>>,
    <<WB, L("ooo"), WB>>,
    <<L("do"), SP, L("not"), SP, L("disturb")>>,
    <<L("reserve"), SP, L("time")>> >>

AnalyzePatterns == <<
    <<L("analyze")>>,
    <<L("how"), SP, OneOf(<<"much", "many">>)>>,
    <<L("time"), SP, OneOf(<<"usage", "analysis", "spent">>)>>,
    <<L("meeting"), SP, OneOf(<<"load", "count", "distribution">>)>>,
    <<L("show"), SP, Opt(<<L("my"), SP>>), OneOf(<<"time", "meeting">>), SP,
      OneOf(<<"usage", "analysis", "stats", "summary">>)>>,
    <<L("busiest")>>,
    <<L("free"), SP, L("time"), SP, OneOf(<<"this", "next">>)>> >>

AuthPatterns == <<
    <<L("authenticate")>>,
    <<L("login")>>,
    <<L("authorize")>>,
    <<L("connect")>> >>

\* INTENT_PATTERNS with update moved ahead of create
INTENT_PATTERNS_UpdateFirst == <<
    [intent |-> "availability", patterns |-> AvailabilityPatterns],
    [intent |-> "update", patterns |-> UpdatePatterns],
    [intent |-> "create", patterns |-> CreatePatterns],
    [intent |-> "list", patterns |-> ListPatterns],
    [intent |-> "get", patterns |-> GetPatterns],
    [intent |-> "delete", patterns |-> DeletePatterns],
    [intent |-> "block", patterns |-> BlockPatterns],
    [intent |-> "analyze", patterns |-> AnalyzePatterns],
    [intent |-> "auth", patterns |-> AuthPatterns] >>

\* Object.entries(INTENT_PATTERNS): the keys in the order they are written
INTENT_PATTERNS == <<
    [intent |-> "availability", patterns |-> AvailabilityPatterns],
    [intent |-> "create", patterns |-> CreatePatterns],
    [intent |-> "list", patterns |-> ListPatterns],
    [intent |-> "get", patterns |-> GetPatterns],
    [intent |-> "update", patterns |-> UpdatePatterns],
    [intent |-> "delete", patterns |-> DeletePatterns],
    [intent |-> "block", patterns |-> BlockPatterns],
    [intent |-> "analyze", patterns |-> AnalyzePatterns],
    [intent |-> "auth", patterns |-> AuthPatterns] >>

\* -------------------------------------------------------------- detectIntent
\* the two nested for loops, at category c and pattern k
RECURSIVE DetectFrom(_, _, _)
DetectFrom(q, c, k) ==
    IF c > Len(INTENT_PATTERNS) THEN "list"
    ELSE IF k > Len(INTENT_PATTERNS[c].patterns) THEN DetectFrom(q, c + 1, 1)
    ELSE IF Test(INTENT_PATTERNS[c].patterns[k], q) THEN INTENT_PATTERNS[c].intent
    ELSE DetectFrom(q, c, k + 1)

detectIntent(q) == DetectFrom(q, 1, 1)

\* ------------------------------------------------------------ intent machine
\* the words and phrases of the queries; reschedule and unschedule contain schedule
Words == {
    <<"find">>, <<"time">>, <<"schedule">>, <<"re", "schedule">>, <<"un", "schedule">>,
    <<"List">>, <<"look", " ", "up">>, <<"Move">>, <<"cancel">>, <<"block">>,
    <<"analyze">>, <<"login">>, <<"the">> }

\* the words separated by single spaces
RECURSIVE Join(_)
Join(ws) ==
    IF ws = <<>> THEN <<>>
    ELSE IF Len(ws) = 1 THEN ws[1]
    ELSE ws[1] \o <<" ">> \o Join(Tail(ws))

\* a stated amount of time: a number and a unit
Amounts == {<<"2", " ", "hours">>, <<"1", " ", "hour">>, <<"30", " ", "minutes">>}

\* the words that follow the amount in a request to block time
PurposeWords == {<<"for">>, <<"deep">>, <<"work">>, <<"focus">>, <<"time">>}

\* `block 2 hours for deep work` and its like: block, an amount, a purpose
BlockRequests ==
    {<<"block", " ">> \o a \o (IF ws = <<>> THEN <<>> ELSE <<" ">> \o Join(ws)) :
        a \in Amounts, ws \in SeqsUpTo(PurposeWords, MaxWords)}

Queries == {Join(ws) : ws \in SeqsUpTo(Words, MaxWords)} \cup BlockRequests

InitIntent ==
    /\ SuggestIdle
    /\ FlowIdle
    /\ AuthIdle
    /\ ClientIdle
    /\ CallIdle
    /\ pc = "ask"
    /\ query \in Queries
    /\ intent = "none"
    /\ TextIdle
    /\ UsageIdle
    /\ heap = <<>>
    /\ before = <<>>
    /\ slots = <<>>
    /\ merged = <<>>
    /\ mergedVals = <<>>
    /\ merged2 = <<>>
    /\ busyTimes = <<>>
    /\ startDate = 0
    /\ endDate = 0
    /\ minDuration = 0
    /\ gaps = <<>>

\* intent = detectIntent(query)
DetectIntent ==
    /\ pc = "ask"
    /\ intent' = detectIntent(query)
    /\ pc' = "classified"
    /\ UNCHANGED <<query, mergeVars, queryVars, textVars, usageVars, callVars, clientVars, authVars, flowVars, suggestVars>>

NextIntent == DetectIntent

SpecIntent == InitIntent /\ [][NextIntent]_vars

\* ------------------------------------------------------- claims on the intent
\* the order of the categories the claim fixes
PriorityOrder ==
    <<"availability", "create", "list", "get", "update", "delete", "block", "analyze", "auth">>

\* the patterns written under a category
PatternsOf(name) ==
    LET c == CHOOSE d \in 1..Len(INTENT_PATTERNS) : INTENT_PATTERNS[d].intent = name
    IN INTENT_PATTERNS[c].patterns

Matches(name, q) ==
    LET ps == PatternsOf(name) IN \E k \in 1..Len(ps) : Test(ps[k], q)

BlockAmountIsBlock ==
    pc = "classified" /\ query \in BlockRequests => intent = "block"

\* reschedule followed by whitespace occurs in the query
HasRescheduleSpace(q) ==
    \E i \in 1..(Len(q) - 2) : q[i] = "re" /\ q[i + 1] = "schedule" /\ IsSpace(q[i + 2])

\* C12: a query containing reschedule followed by whitespace is classified
\* 'update', not 'create'.
RescheduleIsUpdate ==
    pc = "classified" /\ HasRescheduleSpace(query) => intent = "update"

\* ------------------------------------------------------ parseTimeExpression
\* A text is a sequence of atoms: single digits, ":" "/" "-", single spaces
\* and words.
MaxDigits == 2

DigitChars == {"0", "1", "2", "3", "4", "5", "6", "7", "8", "9"}

IsDigit(a) == a \in DigitChars

DigitValue(a) ==
    CASE a = "0" -> 0 [] a = "1" -> 1 [] a = "2" -> 2 [] a = "3" -> 3 [] a = "4" -> 4
      [] a = "5" -> 5 [] a = "6" -> 6 [] a = "7" -> 7 [] a = "8" -> 8 [] a = "9" -> 9

\* parseInt(s, 10) of a string of digits
RECURSIVE parseInt(_)
parseInt(ds) ==
    IF ds = <<>> THEN 0
    ELSE 10 * parseInt(SubSeq(ds, 1, Len(ds) - 1)) + DigitValue(ds[Len(ds)])

AllDigits(t, i, j) == \A m \in i..j : IsDigit(t[m])

AllSpaces(t, i, j) == \A m \in i..j : IsSpace(t[m])

\* (am|pm) under the flag i
IsPeriod(a) == Lower(a) \in {"am", "pm"}

\* text.match(patterns[k]): the groups 1..3 (<<>> for an undefined group), or null
TimePatternMatch(k, t) ==
    CASE k = 1 ->      \* /^(\d{1,2}):(\d{2})\s*(am|pm)$/i
            LET ns == {n \in 1..2 :
                          /\ Len(t) >= n + 4
                          /\ AllDigits(t, 1, n)
                          /\ t[n + 1] = ":"
                          /\ AllDigits(t, n + 2, n + 3)
                          /\ AllSpaces(t, n + 4, Len(t) - 1)
                          /\ IsPeriod(t[Len(t)])}
            IN IF ns = {} THEN Null
               ELSE LET n == CHOOSE x \in ns : TRUE
                    IN [g1 |-> SubSeq(t, 1, n), g2 |-> SubSeq(t, n + 2, n + 3),
                        g3 |-> <<t[Len(t)]>>]
      [] k = 2 ->      \* /^(\d{1,2})\s*(am|pm)$/i
            LET ns == {n \in 1..2 :
                          /\ Len(t) >= n + 1
                          /\ AllDigits(t, 1, n)
                          /\ AllSpaces(t, n + 1, Len(t) - 1)
                          /\ IsPeriod(t[Len(t)])}
            IN IF ns = {} THEN Null
               ELSE LET n == CHOOSE x \in ns : TRUE
                    IN [g1 |-> SubSeq(t, 1, n), g2 |-> <<t[Len(t)]>>, g3 |-> <<>>]
      [] k = 3 ->      \* /^(\d{2}):(\d{2})$/
            IF Len(t) = 5 /\ AllDigits(t, 1, 2) /\ t[3] = ":" /\ AllDigits(t, 4, 5)
            THEN [g1 |-> SubSeq(t, 1, 2), g2 |-> SubSeq(t, 4, 5), g3 |-> <<>>]
            ELSE Null

\* `// Convert to 24-hour format`
ToTwentyFourHour(hours, period) ==
    IF period = <<>> THEN hours
    ELSE IF Lower(period[1]) = "pm" /\ hours < 12 THEN hours + 12
    ELSE IF Lower(period[1]) = "am" /\ hours = 12 THEN 0
    ELSE hours

\* the body of `if (match)`: hours, minutes and period from the groups
TimeOfMatch(m) ==
    LET isTwoDigits == Len(m.g2) = 2 /\ AllDigits(m.g2, 1, 2)
        minutes == IF m.g3 # <<>> THEN (IF m.g2 # <<>> THEN parseInt(m.g2) ELSE 0)
                   ELSE IF m.g2 # <<>> /\ isTwoDigits THEN parseInt(m.g2)
                   ELSE 0
        period == IF m.g3 # <<>> THEN m.g3
                  ELSE IF m.g2 # <<>> /\ isTwoDigits THEN <<>>
                  ELSE m.g2
    IN [hours |-> ToTwentyFourHour(parseInt(m.g1), period), minutes |-> minutes]

\* `for (const pattern of patterns)` from pattern k on
RECURSIVE TimeFrom(_, _)
TimeFrom(t, k) ==
    IF k > 3 THEN Null
    ELSE LET m == TimePatternMatch(k, t)
         IN IF m = Null THEN TimeFrom(t, k + 1)
            ELSE LET r == TimeOfMatch(m)
                 IN IF r.hours >= 0 /\ r.hours < 24 /\ r.minutes >= 0 /\ r.minutes < 60
                    THEN r
                    ELSE TimeFrom(t, k + 1)

parseTimeExpression(t) == TimeFrom(t, 1)

\* ------------------------------------------------------------- time machine
\* the digits the time texts are written with
TimeDigits == {"0", "1", "2", "3", "5", "9"}

DigitStrings == {s \in SeqsUpTo(TimeDigits, MaxDigits) : s # <<>>}

\* hour digits, optional ":" and minute digits, optional space, optional am/pm
TimeShapes ==
    [h : DigitStrings, m : SeqsUpTo(TimeDigits, MaxDigits), gap : {<<>>, <<" ">>},
     period : {<<>>, <<"am">>, <<"pm">>, <<"AM">>, <<"PM">>}]

TimeText(s) ==
    s.h \o (IF s.m = <<>> THEN <<>> ELSE <<":">> \o s.m) \o s.gap \o s.period

InitTime ==
    /\ SuggestIdle
    /\ FlowIdle
    /\ AuthIdle
    /\ ClientIdle
    /\ CallIdle
    /\ pc = "text"
    /\ shape \in TimeShapes
    /\ text = TimeText(shape)
    /\ today = 0
    /\ parsed = Null
    /\ entities = Null
    /\ UsageIdle
    /\ heap = <<>>
    /\ before = <<>>
    /\ slots = <<>>
    /\ merged = <<>>
    /\ mergedVals = <<>>
    /\ merged2 = <<>>
    /\ busyTimes = <<>>
    /\ startDate = 0
    /\ endDate = 0
    /\ minDuration = 0
    /\ gaps = <<>>
    /\ query = <<>>
    /\ intent = "none"

\* parsed = parseTimeExpression(text)
ParseTimeExpression ==
    /\ pc = "text"
    /\ parsed' = parseTimeExpression(text)
    /\ pc' = "time"
    /\ UNCHANGED <<text, shape, today, entities, mergeVars, queryVars, intentVars, usageVars, callVars, clientVars, authVars, flowVars, suggestVars>>

NextTime == ParseTimeExpression

SpecTime == InitTime /\ [][NextTime]_vars

\* C14: a 12-hour expression H[:MM]am/pm with H in 1..12 gives hours =
\* (H mod 12) + (12 if pm) and the minutes as written; a 24-hour HH:MM gives
\* the numbers as written; a result has 0 <= hours <= 23 and 0 <= minutes <=
\* 59; the result is null when nothing matches or a value is out of range,
\* a 12-hour expression with H outside 1..12 included.
TimeExpressionRule ==
    pc = "time" =>
        LET H == parseInt(shape.h)
            M == parseInt(shape.m)
            twelve == shape.period # <<>> /\ (shape.m = <<>> \/ Len(shape.m) = 2)
            twentyFour == /\ shape.period = <<>> /\ shape.gap = <<>>
                          /\ Len(shape.h) = 2 /\ Len(shape.m) = 2
        IN /\ twelve /\ H \in 1..12 /\ M <= 59 =>
                parsed = [hours |-> (H % 12) + (IF Lower(shape.period[1]) = "pm" THEN 12 ELSE 0),
                          minutes |-> M]
           /\ twelve /\ (H \notin 1..12 \/ M > 59) => parsed = Null
           /\ twentyFour /\ H <= 23 /\ M <= 59 => parsed = [hours |-> H, minutes |-> M]
           /\ twentyFour /\ (H > 23 \/ M > 59) => parsed = Null
           /\ ~(twelve \/ twentyFour) => parsed = Null
           /\ parsed # Null => parsed.hours \in 0..23 /\ parsed.minutes \in 0..59

\* ------------------------------------------------------------ parseDuration
\* the words (hour|hr|hours?) and (minute|min|minutes?) match the start of
IsHourWord(a) == Lower(a) \in {"hour", "hours", "hr", "hrs"}

IsMinuteWord(a) == Lower(a) \in {"minute", "minutes", "min", "mins"}

\* text.match(/(\d+)\s*(unit)/i): group 1 of the leftmost match, or null.
\* A match starts at a digit, runs over the digits that follow it and any
\* spaces, and ends in a unit word.
UnitMatch(t, isHour) ==
    LET starts == {i \in 1..Len(t) :
                     /\ IsDigit(t[i])
                     /\ \E j \in (i + 1)..Len(t) :
                           /\ IF isHour THEN IsHourWord(t[j]) ELSE IsMinuteWord(t[j])
                           /\ \E k \in i..(j - 1) :
                                 AllDigits(t, i, k) /\ AllSpaces(t, k + 1, j - 1)}
    IN IF starts = {} THEN Null
       ELSE LET i == CHOOSE x \in starts : \A y \in starts : x <= y
                k == CHOOSE x \in i..Len(t) :
                        AllDigits(t, i, x) /\ (x = Len(t) \/ ~IsDigit(t[x + 1]))
            IN [g1 |-> SubSeq(t, i, k)]

\* parseDuration(text): a number of minutes ([value |-> n]) or null
parseDuration(t) ==
    LET hourMatch == UnitMatch(t, TRUE)
        minuteMatch == UnitMatch(t, FALSE)
        totalMinutes == (IF hourMatch # Null THEN parseInt(hourMatch.g1) * 60 ELSE 0)
                        + (IF minuteMatch # Null THEN parseInt(minuteMatch.g1) ELSE 0)
    IN IF totalMinutes > 0 THEN [value |-> totalMinutes] ELSE Null

\* --------------------------------------------------------- duration machine
DurationWords == {
    <<"2", " ", "hours">>, <<"1", " ", "hr">>, <<"0", " ", "hours">>,
    <<"3", "0", " ", "minutes">>, <<"1", "5", "min">>, <<"0", " ", "minutes">>,
    <<"5">>, <<"for">> }

DurationTexts == {Join(ws) : ws \in SeqsUpTo(DurationWords, MaxWords)}

InitDuration ==
    /\ SuggestIdle
    /\ FlowIdle
    /\ AuthIdle
    /\ ClientIdle
    /\ CallIdle
    /\ pc = "text"
    /\ text \in DurationTexts
    /\ shape = Null
    /\ today = 0
    /\ parsed = Null
    /\ entities = Null
    /\ UsageIdle
    /\ heap = <<>>
    /\ before = <<>>
    /\ slots = <<>>
    /\ merged = <<>>
    /\ mergedVals = <<>>
    /\ merged2 = <<>>
    /\ busyTimes = <<>>
    /\ startDate = 0
    /\ endDate = 0
    /\ minDuration = 0
    /\ gaps = <<>>
    /\ query = <<>>
    /\ intent = "none"

\* parsed = parseDuration(text)
ParseDuration ==
    /\ pc = "text"
    /\ parsed' = parseDuration(text)
    /\ pc' = "duration"
    /\ UNCHANGED <<text, shape, today, entities, mergeVars, queryVars, intentVars, usageVars, callVars, clientVars, authVars, flowVars, suggestVars>>

NextDuration == ParseDuration

SpecDuration == InitDuration /\ [][NextDuration]_vars

\* C15: parseDuration returns 60*h + m for the first hour token and the
\* first minute token (an absent one counts 0), and null only if neither
\* token matched: `0 minutes` and `0 hours` give a number.
DurationNullOnlyWithoutToken ==
    pc = "duration" =>
        LET hourMatch == UnitMatch(text, TRUE)
            minuteMatch == UnitMatch(text, FALSE)
        IN IF hourMatch = Null /\ minuteMatch = Null THEN parsed = Null
           ELSE parsed = [value |-> 60 * (IF hourMatch # Null THEN parseInt(hourMatch.g1) ELSE 0)
                                    + (IF minuteMatch # Null THEN parseInt(minuteMatch.g1) ELSE 0)]

\* ------------------------------------------------------ parseDateExpression
\* A Date is [t |-> instant] or, for new Date(year, month, day), the local
\* midnight [year, month, day] of its arguments.  Instant 0 is the start of
\* a Sunday.
DateAt(t) == [t |-> t]

DateOf(year, month, day) == [year |-> year, month |-> month, day |-> day]

\* today.getFullYear()
CurrentYear == 2024

\* Date.prototype.getDay: 0 = Sunday
getDay(d) == (d \div TicksPerDay) % 7

addDays(d, days) == d + days * TicksPerDay

daysOfWeek == <<"sunday", "monday", "tuesday", "wednesday", "thursday", "friday", "saturday">>

\* daysOfWeek.indexOf(name)
IndexOfDay(name) == (CHOOSE k \in 1..Len(daysOfWeek) : daysOfWeek[k] = name) - 1

\* lowerText.includes(word)
Includes(t, word) == \E i \in 1..Len(t) : Lower(t[i]) = word

\* lowerText.match(/(sunday|...|saturday)/): the leftmost weekday name, or null
DayMatch(t) ==
    LET hits == {i \in 1..Len(t) : \E k \in 1..Len(daysOfWeek) : Lower(t[i]) = daysOfWeek[k]}
    IN IF hits = {} THEN Null
       ELSE [g1 |-> Lower(t[CHOOSE i \in hits : \A j \in hits : i <= j])]

\* daysUntil with `if (daysUntil < 0)`: the named day may be today
DaysUntilOrToday(targetDay, currentDay) ==
    IF targetDay - currentDay < 0 THEN targetDay - currentDay + 7 ELSE targetDay - currentDay

\* `let daysUntil = targetDay - currentDay; if (daysUntil <= 0) daysUntil += 7`
DaysUntil(targetDay, currentDay) ==
    IF targetDay - currentDay <= 0 THEN targetDay - currentDay + 7 ELSE targetDay - currentDay

IsDateSeparator(a) == a \in {"/", "-"}

\* text.match(/(\d{1,2})[\/\-](\d{1,2})[\/\-]?(\d{4})?/): the groups of the
\* leftmost match, each \d{1,2} as long as it can be, or null
DatePatternMatch(t) ==
    LET fits(i, n1, n2) ==
            /\ i + n1 + n2 <= Len(t)
            /\ AllDigits(t, i, i + n1 - 1)
            /\ IsDateSeparator(t[i + n1])
            /\ AllDigits(t, i + n1 + 1, i + n1 + n2)
        starts == {i \in 1..Len(t) : \E n1 \in 1..2, n2 \in 1..2 : fits(i, n1, n2)}
    IN IF starts = {} THEN Null
       ELSE LET i == CHOOSE x \in starts : \A y \in starts : x <= y
                n1 == IF \E n2 \in 1..2 : fits(i, 2, n2) THEN 2 ELSE 1
                n2 == IF fits(i, n1, 2) THEN 2 ELSE 1
                j == i + n1 + n2 + 1
                y == IF j <= Len(t) /\ IsDateSeparator(t[j]) THEN j + 1 ELSE j
            IN [g1 |-> SubSeq(t, i, i + n1 - 1),
                g2 |-> SubSeq(t, i + n1 + 1, i + n1 + n2),
                g3 |-> IF y + 3 <= Len(t) /\ AllDigits(t, y, y + 3)
                       THEN SubSeq(t, y, y + 3) ELSE <<>>]

\* date-utils parseDateExpression(text), called at the instant now
parseDateExpression(t, now) ==
    IF Includes(t, "today") THEN DateAt(getStartOfDay(now))
    ELSE IF Includes(t, "tomorrow") THEN DateAt(getStartOfDay(addDays(now, 1)))
    ELSE IF DayMatch(t) # Null
    THEN DateAt(getStartOfDay(addDays(now, DaysUntil(IndexOfDay(DayMatch(t).g1), getDay(now)))))
    ELSE IF DatePatternMatch(t) # Null
    THEN LET dateMatch == DatePatternMatch(t)
         IN DateOf(IF dateMatch.g3 # <<>> THEN parseInt(dateMatch.g3) ELSE CurrentYear,
                   parseInt(dateMatch.g1) - 1, parseInt(dateMatch.g2))
    ELSE Null

\* the parseDateExpression local to natural-language.ts
parseDateExpressionLocal(t, now) ==
    IF Includes(t, "today") THEN DateAt(getStartOfDay(now))
    ELSE IF Includes(t, "tomorrow") THEN DateAt(addDays(now, 1))
    ELSE IF DayMatch(t) # Null
    THEN DateAt(addDays(now, DaysUntil(IndexOfDay(DayMatch(t).g1), getDay(now))))
    ELSE Null

\* formatDate(date): the weekday, year, month and day of the date's local
\* day; the time of day does not show
formatDate(d) == IF "t" \in DOMAIN d THEN [localDay |-> d.t \div TicksPerDay] ELSE d

\* ---------------------------------------------------------- extractEntities
DigitChar(n) ==
    CASE n = 0 -> "0" [] n = 1 -> "1" [] n = 2 -> "2" [] n = 3 -> "3" [] n = 4 -> "4"
      [] n = 5 -> "5" [] n = 6 -> "6" [] n = 7 -> "7" [] n = 8 -> "8" [] n = 9 -> "9"

\* n.toString().padStart(2, '0') for 0 <= n <= 99
PadStart2(n) == IF n < 10 THEN <<"0", DigitChar(n)>> ELSE <<DigitChar(n \div 10), DigitChar(n % 10)>>

\* extractEntities(query): the date, time and duration entities (Null for a
\* key that is not set, [string |-> s] for a string); the e-mail, title, location and description
\* patterns set other keys and read nothing of these
extractEntities(t, now) ==
    LET date == parseDateExpressionLocal(t, now)
        time == parseTimeExpression(t)
        duration == parseDuration(t)
    IN [date |-> IF date # Null THEN formatDate(date) ELSE Null,
        time |-> IF time # Null
                 THEN [string |-> PadStart2(time.hours) \o <<":">> \o PadStart2(time.minutes)]
                 ELSE Null,
        duration |-> duration]

\* ----------------------------------------------------------- entity machine
EntityWords == {
    <<"sunday">>, <<"Monday">>, <<"tuesday">>, <<"wednesday">>, <<"thursday">>,
    <<"friday">>, <<"saturday">>, <<"today">>, <<"Tomorrow">>,
    <<"1", "/", "1", "5", "/", "2", "0", "2", "4">>, <<"3", "pm">> }

EntityTexts == {Join(ws) : ws \in SeqsUpTo(EntityWords, MaxWords)}

\* new Date(): any weekday, at midnight or later in the day
Nows == {day * TicksPerDay + tod : day \in 0..6, tod \in 0..1}

InitEntities ==
    /\ SuggestIdle
    /\ FlowIdle
    /\ AuthIdle
    /\ ClientIdle
    /\ CallIdle
    /\ pc = "text"
    /\ text \in EntityTexts
    /\ today \in Nows
    /\ shape = Null
    /\ parsed = Null
    /\ entities = Null
    /\ UsageIdle
    /\ heap = <<>>
    /\ before = <<>>
    /\ slots = <<>>
    /\ merged = <<>>
    /\ mergedVals = <<>>
    /\ merged2 = <<>>
    /\ busyTimes = <<>>
    /\ startDate = 0
    /\ endDate = 0
    /\ minDuration = 0
    /\ gaps = <<>>
    /\ query = <<>>
    /\ intent = "none"

\* parsed = parseDateExpression(text) of date-utils
ParseDateExpression ==
    /\ pc = "text"
    /\ parsed' = parseDateExpression(text, today)
    /\ pc' = "date"
    /\ UNCHANGED <<text, shape, today, entities, mergeVars, queryVars, intentVars, usageVars, callVars, clientVars, authVars, flowVars, suggestVars>>

\* entities = extractEntities(text)
ExtractEntities ==
    /\ pc = "text"
    /\ entities' = extractEntities(text, today)
    /\ pc' = "entities"
    /\ UNCHANGED <<text, shape, today, parsed, mergeVars, queryVars, intentVars, usageVars, callVars, clientVars, authVars, flowVars, suggestVars>>

NextEntities == ParseDateExpression \/ ExtractEntities

SpecEntities == InitEntities /\ [][NextEntities]_vars

\* ------------------------------------------------- claims on the entities
\* the clock time 3pm stands in the text among other words
HasClockTimeAmongWords(t) ==
    /\ Len(t) > 2
    /\ \E i \in 1..(Len(t) - 1) : t[i] = "3" /\ IsPeriod(t[i + 1])

\* C13: when the query holds a clock time among other words, entities.time
\* is that time as zero-padded 24-hour HH:MM (3pm gives 15:00).
ClockTimeAmongWordsExtracted ==
    pc = "entities" /\ HasClockTimeAmongWords(text) =>
        entities.time = [string |-> <<"1", "5", ":", "0", "0">>]

\* the text names a weekday and holds neither today nor tomorrow
NamesWeekdayOnly(t) ==
    DayMatch(t) # Null /\ ~Includes(t, "today") /\ ~Includes(t, "tomorrow")

\* d = ((t - c - 1) mod 7) + 1 for the named weekday t and the current weekday c
DaysAhead(t, c) == ((t - c - 1 + 7) % 7) + 1

\* C16: a weekday name resolves strictly in the future: with c the current
\* weekday and t the named one, parseDateExpression returns the start of the
\* day d = ((t - c - 1) mod 7) + 1 days after today; 1 <= d <= 7, the day
\* is a weekday t and is never today; the entity extractor's date is that
\* same day.
WeekdayStrictlyFuture ==
    NamesWeekdayOnly(text) =>
        LET t == IndexOfDay(DayMatch(text).g1)
            d == DaysAhead(t, getDay(today))
        IN /\ d \in 1..7
           /\ pc = "date" =>
                /\ parsed = DateAt(getStartOfDay(today) + d * TicksPerDay)
                /\ getDay(parsed.t) = t
                /\ parsed.t > getEndOfDay(today)
           /\ pc = "entities" =>
                entities.date = [localDay |-> (today \div TicksPerDay) + d]

\* the named weekday is today's, asked later than midnight: a week ahead
WeekdayStrictlyFutureWitness ==
    /\ pc = "date"
    /\ NamesWeekdayOnly(text)
    /\ IndexOfDay(DayMatch(text).g1) = getDay(today)
    /\ today # getStartOfDay(today)
    /\ parsed = DateAt(getStartOfDay(today) + 7 * TicksPerDay)

\* C17: extractEntities sets entities.date exactly when parseDateExpression
\* (today, tomorrow, weekday name, else numeric M/D[/YYYY]) resolves a date,
\* and to that same calendar day.
EntityDateFollowsParser ==
    pc = "entities" =>
        LET date == parseDateExpression(text, today)
        IN IF date = Null THEN entities.date = Null
           ELSE entities.date = formatDate(date)

\* --------------------------------------------------------- analyzeTimeUsage
MaxEvents == 2

\* An event is [start, end, attendees, summary, description]: start and end
\* are the instants of new Date(event.start.dateTime) and new
\* Date(event.end.dateTime), summary and description are texts (description
\* <<>> when absent, as in `event.description || ''`).
meetingKeywords == {
    "meeting", "standup", "sync", "review", "call", "discussion",
    "demo", "workshop", "training", "interview", "1:1", "one-on-one" }

\* isMeetingEvent looking at the attendees only
isMeetingEventAttendeesOnly(event) == Len(event.attendees) > 0

\* CalendarClient.isMeetingEvent(event)
isMeetingEvent(event) ==
    \/ Len(event.attendees) > 0
    \/ LET txt == event.summary \o <<" ">> \o event.description
       IN \E keyword \in meetingKeywords : Includes(txt, keyword)

\* eventStart.toLocaleDateString('en-US', { weekday: 'long' })
WeekdayNames == <<"Sunday", "Monday", "Tuesday", "Wednesday", "Thursday", "Friday", "Saturday">>

DayKey(event) == WeekdayNames[getDay(event.start) + 1]

\* minutes / 60: a number of hours, kept as its count of sixtieths of an hour
Hours(minutes) == [sixtieths |-> minutes]

\* dayStats[dayKey].minutes += duration; dayStats[dayKey].count++, the keys
\* of dayStats kept in the order they were first set
TrackByDay(dayStats, dayKey, duration) ==
    IF \E k \in 1..Len(dayStats) : dayStats[k].day = dayKey
    THEN [k \in 1..Len(dayStats) |->
            IF dayStats[k].day = dayKey
            THEN [day |-> dayKey, minutes |-> dayStats[k].minutes + duration,
                  count |-> dayStats[k].count + 1]
            ELSE dayStats[k]]
    ELSE Append(dayStats, [day |-> dayKey, minutes |-> duration, count |-> 1])

\* `for (const event of events)` from event i on
RECURSIVE UsageLoop(_, _, _)
UsageLoop(evs, i, acc) ==
    IF i > Len(evs) THEN acc
    ELSE LET event == evs[i]
             duration == getDurationMinutes(event.start, event.end)
             isMeeting == isMeetingEvent(event)
         IN UsageLoop(evs, i + 1,
                [totalMinutes |-> acc.totalMinutes + duration,
                 meetingMinutes |-> acc.meetingMinutes + (IF isMeeting THEN duration ELSE 0),
                 focusMinutes |-> acc.focusMinutes + (IF isMeeting THEN 0 ELSE duration),
                 dayStats |-> TrackByDay(acc.dayStats, DayKey(event), duration)])

\* `// Find busiest day`: the loop over Object.entries(dayStats) from entry k on
RECURSIVE BusiestLoop(_, _, _, _)
BusiestLoop(dayStats, k, busiestDay, busiestMinutes) ==
    IF k > Len(dayStats) THEN busiestDay
    ELSE IF dayStats[k].minutes > busiestMinutes
    THEN BusiestLoop(dayStats, k + 1, dayStats[k].day, dayStats[k].minutes)
    ELSE BusiestLoop(dayStats, k + 1, busiestDay, busiestMinutes)

\* Math.max(0, a - b - c) on hours
FreeHours(totalHours, meetingHours, focusHours) ==
    LET free == totalHours.sixtieths - meetingHours.sixtieths - focusHours.sixtieths
    IN Hours(IF free > 0 THEN free ELSE 0)

\* the TimeUsageSummary of CalendarClient.analyzeTimeUsage for the events
\* listEvents returned
analyzeTimeUsage(evs) ==
    LET acc == UsageLoop(evs, 1, [totalMinutes |-> 0, meetingMinutes |-> 0,
                                   focusMinutes |-> 0, dayStats |-> <<>>])
        busiestDay == BusiestLoop(acc.dayStats, 1, "", 0)
        totalHours == Hours(acc.totalMinutes)
        meetingHours == Hours(acc.meetingMinutes)
        focusHours == Hours(acc.focusMinutes)
    IN [totalHours |-> totalHours,
        meetingHours |-> meetingHours,
        focusHours |-> focusHours,
        freeHours |-> FreeHours(totalHours, meetingHours, focusHours),
        meetingCount |-> Cardinality({i \in 1..Len(evs) : isMeetingEvent(evs[i])}),
        busiestDay |-> IF busiestDay = "" THEN "None" ELSE busiestDay,
        dayBreakdown |-> [k \in 1..Len(acc.dayStats) |->
                            [day |-> acc.dayStats[k].day,
                             hours |-> Hours(acc.dayStats[k].minutes),
                             meetingCount |-> acc.dayStats[k].count]]]

\* ------------------------------------------------------------ usage machine
\* who is invited, and what the event says
EventKinds == {
    [attendees |-> <<>>, summary |-> <<"focus", " ", "block">>, description |-> <<>>],
    [attendees |-> <<"john@example.com">>, summary |-> <<"focus", " ", "block">>,
     description |-> <<>>],
    [attendees |-> <<>>, summary |-> <<"Team", " ", "Sync">>, description |-> <<>>],
    [attendees |-> <<>>, summary |-> <<"lunch">>, description |-> <<"demo">>] }

\* events.list({timeMin, timeMax, singleEvents: true}): the events that end
\* after timeMin and start before timeMax
EventsIn(timeMin, timeMax) ==
    {[start |-> s.start, end |-> s.end, attendees |-> k.attendees,
      summary |-> k.summary, description |-> k.description] :
        s \in {w \in WellFormedSlots : w.end > timeMin /\ w.start < timeMax},
        k \in EventKinds}

\* orderBy: 'startTime'
OrderedByStartTime(evs) == \A i \in 1..(Len(evs) - 1) : evs[i].start <= evs[i + 1].start

InitUsage ==
    /\ SuggestIdle
    /\ FlowIdle
    /\ AuthIdle
    /\ ClientIdle
    /\ CallIdle
    /\ pc = "listed"
    /\ startDate = 0
    /\ endDate = MaxTime
    /\ \E n \in 0..MaxEvents :
          events \in {evs \in [1..n -> EventsIn(0, MaxTime)] : OrderedByStartTime(evs)}
    /\ summary = Null
    /\ TextIdle
    /\ heap = <<>>
    /\ before = <<>>
    /\ slots = <<>>
    /\ merged = <<>>
    /\ mergedVals = <<>>
    /\ merged2 = <<>>
    /\ busyTimes = <<>>
    /\ minDuration = 0
    /\ gaps = <<>>
    /\ query = <<>>
    /\ intent = "none"

\* CalendarClient.analyzeTimeUsage({startDate, endDate}) once listEvents has succeeded
AnalyzeTimeUsage ==
    /\ pc = "listed"
    /\ summary' = analyzeTimeUsage(events)
    /\ pc' = "analyzed"
    /\ UNCHANGED <<events, mergeVars, queryVars, intentVars, textVars, callVars, clientVars, authVars, flowVars, suggestVars>>

NextUsage == AnalyzeTimeUsage

SpecUsage == InitUsage /\ [][NextUsage]_vars

\* --------------------------------------------------- claims on time usage
\* C18: free hours are measured against the analysis window:
\* freeHours = max(0, windowHours - meetingHours - focusHours).
FreeHoursAgainstWindow ==
    pc = "analyzed" =>
        summary.freeHours =
            FreeHours(Hours(getDurationMinutes(startDate, endDate)),
                      summary.meetingHours, summary.focusHours)

\* C19: busiestDay is 'None' exactly when there are no events; otherwise it
\* is the weekday of dayBreakdown with the most minutes, the first-seen one
\* on ties, also when every event has zero duration.
BusiestDayNoneIffNoEvents ==
    pc = "analyzed" =>
        /\ summary.busiestDay = "None" <=> events = <<>>
        /\ events # <<>> =>
             LET days == summary.dayBreakdown
                 most == Max({days[k].hours.sixtieths : k \in 1..Len(days)})
                 first == CHOOSE k \in 1..Len(days) :
                             /\ days[k].hours.sixtieths = most
                             /\ \A j \in 1..(k - 1) : days[j].hours.sixtieths < most
             IN summary.busiestDay = days[first].day

RECURSIVE SumSeq(_)
SumSeq(s) == IF s = <<>> THEN 0 ELSE Head(s) + SumSeq(Tail(s))

\* the claim's test: at least one attendee, or a keyword in the title or the description
CountsAsMeeting(event) ==
    \/ event.attendees # <<>>
    \/ \E i \in 1..Len(event.summary) : Lower(event.summary[i]) \in meetingKeywords
    \/ \E i \in 1..Len(event.description) : Lower(event.description[i]) \in meetingKeywords

\* C20: every event is counted in exactly one bucket, meeting (an attendee
\* or a keyword) or focus: meeting minutes + focus minutes = total minutes,
\* each the sum over its events, meetingCount is the number of meetings, and
\* the minutes of dayBreakdown add up to the total.
EveryEventInOneBucket ==
    pc = "analyzed" =>
        LET n == Len(events)
            minutes(i) == getDurationMinutes(events[i].start, events[i].end)
            meetings == {i \in 1..n : CountsAsMeeting(events[i])}
        IN /\ summary.totalHours = Hours(SumSeq([i \in 1..n |-> minutes(i)]))
           /\ summary.meetingHours =
                Hours(SumSeq([i \in 1..n |-> IF i \in meetings THEN minutes(i) ELSE 0]))
           /\ summary.focusHours =
                Hours(SumSeq([i \in 1..n |-> IF i \in meetings THEN 0 ELSE minutes(i)]))
           /\ summary.meetingHours.sixtieths + summary.focusHours.sixtieths
                = summary.totalHours.sixtieths
           /\ summary.meetingCount = Cardinality(meetings)
           /\ SumSeq([k \in 1..Len(summary.dayBreakdown) |->
                        summary.dayBreakdown[k].hours.sixtieths])
                = summary.totalHours.sixtieths

\* a meeting by its title alone and a focus event, on two weekdays, both counted
EveryEventInOneBucketWitness ==
    /\ pc = "analyzed"
    /\ Len(events) = 2
    /\ events[1].attendees = <<>> /\ CountsAsMeeting(events[1])
    /\ ~CountsAsMeeting(events[2])
    /\ summary.meetingHours.sixtieths > 0
    /\ summary.focusHours.sixtieths > 0
    /\ Len(summary.dayBreakdown) = 2

\* the text states a duration: an hour token or a minute token
StatesDuration(t) == UnitMatch(t, TRUE) # Null \/ UnitMatch(t, FALSE) # Null

\* C21: for a query that states no duration, entities.duration is 60 (a
\* default of one hour) rather than absent.
DurationDefaultsToSixty ==
    pc = "entities" /\ ~StatesDuration(text) => entities.duration = [value |-> 60]

\* ------------------------------------------------- repeated classification
MaxCalls == 3

\* the regular expressions of INTENT_PATTERNS, by category and place
PatternIds ==
    UNION {{<<c, k>> : k \in 1..Len(INTENT_PATTERNS[c].patterns)} :
              c \in 1..Len(INTENT_PATTERNS)}

\* every pattern written with the flag g as well
HasGlobalFlagSet(c, k) == TRUE

\* whether the literal carries the flag g (or y): each one is written /.../i
HasGlobalFlag(c, k) == FALSE

\* RegExp.prototype.test on the pattern object <<c, k>> whose lastIndex is
\* li: without the flag g the search starts at the start of the query and
\* lastIndex is left alone; with it the search starts at lastIndex, which
\* is then set to the end of the match, or to 0 when nothing matches
TestCall(c, k, q, li) ==
    LET p == INTENT_PATTERNS[c].patterns[k]
    IN IF ~HasGlobalFlag(c, k) THEN [found |-> Test(p, q), lastIndex |-> li]
       ELSE LET from == {s \in (li + 1)..(Len(q) + 1) : MatchSeq(p, q, {s}) # {}}
            IN IF from = {} THEN [found |-> FALSE, lastIndex |-> 0]
               ELSE LET s == CHOOSE x \in from : \A y \in from : x <= y
                    IN [found |-> TRUE, lastIndex |-> Max(MatchSeq(p, q, {s})) - 1]

\* detectIntent(query) on the pattern objects in the state li: the intent
\* returned and the state left behind
RECURSIVE DetectCall(_, _, _, _)
DetectCall(q, c, k, li) ==
    IF c > Len(INTENT_PATTERNS) THEN [intent |-> "list", lastIndex |-> li]
    ELSE IF k > Len(INTENT_PATTERNS[c].patterns) THEN DetectCall(q, c + 1, 1, li)
    ELSE LET r == TestCall(c, k, q, li[<<c, k>>])
             li2 == [li EXCEPT ![<<c, k>>] = r.lastIndex]
         IN IF r.found THEN [intent |-> INTENT_PATTERNS[c].intent, lastIndex |-> li2]
            ELSE DetectCall(q, c, k + 1, li2)

\* the queries called with: a word of five categories, and two of no category
CallQueries ==
    {<<"login">>, <<"re", "schedule">>, <<"cancel">>, <<"find">>, <<"the">>,
     <<"schedule", " ", "the">>, <<"List">>}

\* the module has been loaded: every pattern object is fresh
InitCalls ==
    /\ SuggestIdle
    /\ FlowIdle
    /\ AuthIdle
    /\ ClientIdle
    /\ pc = "loaded"
    /\ lastIndex = [ck \in PatternIds |-> 0]
    /\ calls = <<>>
    /\ MergeIdle
    /\ QueryIdle
    /\ IntentIdle
    /\ TextIdle
    /\ UsageIdle

\* one more call detectIntent(q), or parseNaturalLanguage(q) for its intent
DetectIntentCall ==
    /\ pc = "loaded"
    /\ Len(calls) < MaxCalls
    /\ \E q \in CallQueries :
          LET r == DetectCall(q, 1, 1, lastIndex)
          IN /\ calls' = Append(calls, [query |-> q, intent |-> r.intent])
             /\ lastIndex' = r.lastIndex
    /\ UNCHANGED <<pc, mergeVars, queryVars, intentVars, textVars, usageVars, clientVars, authVars, flowVars, suggestVars>>

NextCalls == DetectIntentCall

SpecCalls == InitCalls /\ [][NextCalls]_vars

\* C22: the intent depends only on the query: any two calls with the same
\* query, in any order and with calls on other queries between them, return
\* the same intent, the one a first call returns.
ClassificationDeterministic ==
    \A i \in 1..Len(calls) :
        /\ calls[i].intent = detectIntent(calls[i].query)
        /\ \A j \in 1..Len(calls) :
              calls[i].query = calls[j].query => calls[i].intent = calls[j].intent

\* the same query classified before and after a call on another query
ClassificationDeterministicWitness ==
    /\ Len(calls) = 3
    /\ calls[1].query = calls[3].query
    /\ calls[2].query # calls[1].query
    /\ calls[1].intent = "auth"
    /\ calls[2].intent = "update"

\* ---------------------------------------------------------- CalendarClient
\* what a rejected API promise carries: an Error with a message, or a
\* plain object that is no Error
ApiErrors ==
    {[isError |-> TRUE, message |-> "Event not found"],
     [isError |-> TRUE, message |-> "Rate limit exceeded"],
     [isError |-> FALSE, message |-> "Event not found"]}

\* the events of the calendar: id, times, guests and words
StoredEvents == {
    [id |-> "event-1", start |-> 0, end |-> 1, attendees |-> <<"john@example.com">>,
     summary |-> <<"Team", " ", "Sync">>, description |-> <<>>],
    [id |-> "event-2", start |-> 1, end |-> 2, attendees |-> <<>>,
     summary |-> <<"focus", " ", "block">>, description |-> <<>>],
    [id |-> "event-3", start |-> 2, end |-> 4, attendees |-> <<>>,
     summary |-> <<"lunch">>, description |-> <<"demo">>],
    [id |-> "event-4", start |-> 3, end |-> 4, attendees |-> <<>>,
     summary |-> <<>>, description |-> <<"Team", " ", "lunch">>] }

\* response.data.items of events.list with orderBy: 'startTime', each item
\* through toCalendarEvent (an absent summary is '')
Listings ==
    UNION {{[items |-> evs] : evs \in {l \in [1..n -> StoredEvents] :
               \A i \in 1..(n - 1) : l[i].start < l[i + 1].start}} : n \in 0..MaxEvents}

\* response.data.calendars of freebusy.query for ['primary']
BusyAnswers == {[calendars |-> <<h>>] : h \in SeqsUpTo(WellFormedSlots, MaxBusy)}

\* a fulfilled promise of {success: true, data}
Succeeded(data) ==
    [settled |-> "resolved", success |-> TRUE, error |-> Null, data |-> data]

\* no catch block: the promise of the operation rejects with what was thrown
Rethrow(e, fallback) ==
    [settled |-> "rejected", success |-> FALSE, error |-> [message |-> e.message],
     data |-> Null]

\* catch (error) { return { success: false, error: error instanceof Error ?
\* error.message : fallback } }
Catch(e, fallback) ==
    [settled |-> "resolved", success |-> FALSE,
     error |-> [message |-> IF e.isError THEN e.message ELSE fallback], data |-> Null]

\* what an await of the promise r throws inside a try block
Thrown(r) == [isError |-> TRUE, message |-> r.error.message]

listEvents(reply) ==
    IF reply.ok THEN Succeeded([items |-> reply.data.items])
    ELSE Catch(reply.error, "Failed to list events")

getEvent(reply) ==
    IF reply.ok THEN Succeeded([event |-> reply.data])
    ELSE Catch(reply.error, "Failed to get event")

createEvent(reply) ==
    IF reply.ok THEN Succeeded([event |-> reply.data])
    ELSE Catch(reply.error, "Failed to create event")

updateEvent(reply) ==
    IF reply.ok THEN Succeeded([event |-> reply.data])
    ELSE Catch(reply.error, "Failed to update event")

deleteEvent(reply) ==
    IF reply.ok THEN Succeeded([message |-> "Event deleted successfully"])
    ELSE Catch(reply.error, "Failed to delete event")

getFreeBusy(reply) ==
    IF reply.ok THEN Succeeded([busyTimes |-> reply.data.calendars])
    ELSE Catch(reply.error, "Failed to get free/busy")

\* CalendarClient.findAvailableSlots from the call of getFreeBusy on
clientFindAvailableSlots(reply, start, end, duration) ==
    LET freeBusyResult == getFreeBusy(reply)
    IN IF freeBusyResult.settled = "rejected"
       THEN Catch(Thrown(freeBusyResult), "Failed to find available slots")
       ELSE IF ~freeBusyResult.success \/ freeBusyResult.data = Null
       THEN [settled |-> "resolved", success |-> FALSE, error |-> freeBusyResult.error,
             data |-> Null]
       ELSE LET h == AllBusy(freeBusyResult.data.busyTimes)
                r == mergeTimeSlots(h, Ids(h))
            IN Succeeded([slots |-> findGaps(start, end, Vals(r.heap, r.merged), duration)])

\* CalendarClient.analyzeTimeUsage from the call of listEvents on
clientAnalyzeTimeUsage(reply) ==
    LET eventsResult == listEvents(reply)
    IN IF eventsResult.settled = "rejected"
       THEN Catch(Thrown(eventsResult), "Failed to analyze time usage")
       ELSE IF ~eventsResult.success \/ eventsResult.data = Null
       THEN [settled |-> "resolved", success |-> FALSE, error |-> eventsResult.error,
             data |-> Null]
       ELSE Succeeded([summary |-> analyzeTimeUsage(eventsResult.data.items)])

\* s.toLowerCase()
toLowerCase(s) == [i \in 1..Len(s) |-> Lower(s[i])]

\* s.includes(sub)
StringIncludes(s, sub) ==
    \E i \in 0..(Len(s) - Len(sub)) : SubSeq(s, i + 1, i + Len(sub)) = sub

\* searchEvents without its filter
KeepAll(evs, q) == evs

\* result.data.filter(event => event.summary.toLowerCase().includes(lowerQuery) ||
\* event.description?.toLowerCase().includes(lowerQuery))
FilterByQuery(evs, q) ==
    SelectSeq(evs, LAMBDA event :
        \/ StringIncludes(toLowerCase(event.summary), toLowerCase(q))
        \/ StringIncludes(toLowerCase(event.description), toLowerCase(q)))

\* CalendarClient.searchEvents: it has no try block of its own
searchEvents(q, reply) ==
    LET r == listEvents(reply)
    IN IF r.settled = "rejected" \/ ~r.success \/ r.data = Null THEN r
       ELSE Succeeded([items |-> FilterByQuery(r.data.items, q)])

\* the queries events are searched with
SearchQueries == {<<>>, <<"Sync">>, <<"team">>, <<"lunch">>, <<"standup">>}

\* how the API settles a request whose answer, when there is one, is in D
Replies(D) ==
    {[ok |-> TRUE, data |-> d, error |-> Null] : d \in D} \cup
    {[ok |-> FALSE, data |-> Null, error |-> e] : e \in ApiErrors}

Request(method, eventId) == [method |-> method, eventId |-> eventId]

EventIds == {e.id : e \in StoredEvents} \cup {"non-existent"}

\* ----------------------------------------------------------- client machine
InitClient ==
    /\ SuggestIdle
    /\ FlowIdle
    /\ AuthIdle
    /\ pc = "ready"
    /\ ClientIdle
    /\ CallIdle
    /\ MergeIdle
    /\ QueryIdle
    /\ IntentIdle
    /\ TextIdle
    /\ UsageIdle

\* one operation of the client: the request it issues, how the API settles
\* it, what the operation resolves to
ClientStep(op, request, reply, r) ==
    /\ pc = "ready"
    /\ pc' = op
    /\ apiCalls' = <<request>>
    /\ apiReply' = reply
    /\ result' = r
    /\ found' = Null
    /\ UNCHANGED <<mergeVars, queryVars, intentVars, textVars, usageVars, callVars, authVars, flowVars, suggestVars>>

ListEvents ==
    \E reply \in Replies(Listings) :
        /\ ClientStep("listEvents", Request("events.list", ""), reply, listEvents(reply))
        /\ UNCHANGED searchQuery

GetEvent ==
    \E eventId \in EventIds :
      \E reply \in Replies({e \in StoredEvents : e.id = eventId}) :
        /\ ClientStep("getEvent", Request("events.get", eventId), reply, getEvent(reply))
        /\ UNCHANGED searchQuery

CreateEvent ==
    \E reply \in Replies(StoredEvents) :
        /\ ClientStep("createEvent", Request("events.insert", ""), reply, createEvent(reply))
        /\ UNCHANGED searchQuery

UpdateEvent ==
    \E eventId \in EventIds :
      \E reply \in Replies({e \in StoredEvents : e.id = eventId}) :
        /\ ClientStep("updateEvent", Request("events.update", eventId), reply,
                      updateEvent(reply))
        /\ UNCHANGED searchQuery

DeleteEvent ==
    \E eventId \in EventIds :
      \E reply \in Replies(IF eventId = "non-existent" THEN {} ELSE {Null}) :
        /\ ClientStep("deleteEvent", Request("events.delete", eventId), reply,
                      deleteEvent(reply))
        /\ UNCHANGED searchQuery

GetFreeBusy ==
    \E reply \in Replies(BusyAnswers) :
        /\ ClientStep("getFreeBusy", Request("freebusy.query", ""), reply, getFreeBusy(reply))
        /\ UNCHANGED searchQuery

CallFindAvailableSlots ==
    \E reply \in Replies(BusyAnswers), duration \in 0..1 :
        /\ ClientStep("findAvailableSlots", Request("freebusy.query", ""), reply,
                      clientFindAvailableSlots(reply, 0, MaxTime, duration))
        /\ UNCHANGED searchQuery

CallAnalyzeTimeUsage ==
    \E reply \in Replies(Listings) :
        /\ ClientStep("analyzeTimeUsage", Request("events.list", ""), reply,
                      clientAnalyzeTimeUsage(reply))
        /\ UNCHANGED searchQuery

SearchEvents ==
    \E q \in SearchQueries, reply \in Replies(Listings) :
        /\ ClientStep("searchEvents", Request("events.list", ""), reply,
                      searchEvents(q, reply))
        /\ searchQuery' = q

\* ------------------------------------------------------------ the commands
\* createCalendarClient() has thrown: the command ends there
NotAuthenticated ==
    [settled |-> "rejected", success |-> FALSE,
     error |-> [message |-> "No access token available"], data |-> Null]

\* console.log(formatError('Event not found', ...)) and return
EventNotFound ==
    [settled |-> "resolved", success |-> FALSE, error |-> [message |-> "Event not found"],
     data |-> Null]

\* the update queries: none of them holds a title, a location or a description
UpdateQueries == {<<>>, <<"Tomorrow">>, <<"3", "pm">>, <<"30", " ", "minutes">>}

\* the keys of updateParams besides eventId
UpdateFields(updateQuery) ==
    LET e == extractEntities(updateQuery, 0)
    IN IF e.time # Null \/ e.date # Null \/ e.duration # Null THEN {"start", "end"} ELSE {}

\* a command that searches an event and then calls write on the first one found
SearchThenWrite(command, method, q, fields) ==
    /\ pc = "ready"
    /\ pc' = command
    /\ searchQuery' = q
    /\ \E authenticated \in BOOLEAN :
          IF ~authenticated
          THEN /\ apiCalls' = <<>>
               /\ apiReply' = Null
               /\ found' = Null
               /\ result' = NotAuthenticated
          ELSE \E listReply \in Replies(Listings) :
                  LET searchResult == searchEvents(q, listReply)
                      list == Request("events.list", "")
                  IN /\ found' = searchResult
                     /\ IF searchResult.settled = "rejected"
                        THEN /\ apiCalls' = <<list>>
                             /\ apiReply' = listReply
                             /\ result' = searchResult
                        ELSE IF \/ ~searchResult.success
                                \/ searchResult.data = Null
                                \/ Len(searchResult.data.items) = 0
                        THEN /\ apiCalls' = <<list>>
                             /\ apiReply' = listReply
                             /\ result' = EventNotFound
                        ELSE LET event == searchResult.data.items[1]
                             IN \E reply \in Replies({event}) :
                                   /\ apiCalls' = <<list, [method |-> method,
                                                           eventId |-> event.id,
                                                           fields |-> fields]>>
                                   /\ apiReply' = reply
                                   /\ result' = IF method = "events.delete"
                                                THEN deleteEvent(reply)
                                                ELSE updateEvent(reply)
    /\ UNCHANGED <<mergeVars, queryVars, intentVars, textVars, usageVars, callVars, authVars, flowVars, suggestVars>>

\* handleDelete(query)
HandleDelete ==
    /\ pc = "ready"
    /\ \E q \in SearchQueries : SearchThenWrite("handleDelete", "events.delete", q, {})

\* handleUpdate(eventQuery, updateQuery)
HandleUpdate ==
    /\ pc = "ready"
    /\ \E eventQuery \in SearchQueries, updateQuery \in UpdateQueries :
          SearchThenWrite("handleUpdate", "events.update", eventQuery,
                          UpdateFields(updateQuery))

NextClient ==
    \/ ListEvents
    \/ GetEvent
    \/ CreateEvent
    \/ UpdateEvent
    \/ DeleteEvent
    \/ GetFreeBusy
    \/ CallFindAvailableSlots
    \/ CallAnalyzeTimeUsage
    \/ SearchEvents
    \/ HandleDelete
    \/ HandleUpdate

SpecClient == InitClient /\ [][NextClient]_vars

\* ------------------------------------------------- claims on the client
ClientOperations ==
    {"listEvents", "getEvent", "createEvent", "updateEvent", "deleteEvent", "getFreeBusy",
     "findAvailableSlots", "analyzeTimeUsage", "searchEvents"}

\* C23: when the calendar API call of an operation rejects, the operation
\* resolves, never rejects, to success: false with an error and without
\* data: no slots, no summary, no filtered list.
FailureIsAValue ==
    pc \in ClientOperations /\ ~apiReply.ok =>
        /\ result.settled = "resolved"
        /\ result.success = FALSE
        /\ result.error # Null
        /\ result.data = Null

\* the listing behind an analysis was rejected with something that is no Error
FailureIsAValueWitness ==
    /\ pc = "analyzeTimeUsage"
    /\ ~apiReply.ok
    /\ ~apiReply.error.isError
    /\ result.success = FALSE
    /\ result.error = [message |-> "Failed to list events"]

\* the requests of the command that change the calendar
Writes ==
    SelectSeq(apiCalls, LAMBDA c :
        c.method \in {"events.delete", "events.update", "events.insert"})

\* the search of the command brought at least one event
FoundSome ==
    /\ found # Null
    /\ found.success
    /\ found.data # Null
    /\ Len(found.data.items) > 0

\* C29: a delete or update command issues no write when its search fails
\* or finds nothing; otherwise it issues exactly one, a delete for delete
\* and an update for update, on the id of the first event found, whose
\* summary or description contains the query whatever the case.
TouchesOnlyTheEventFound ==
    pc \in {"handleDelete", "handleUpdate"} =>
        IF ~FoundSome THEN Len(Writes) = 0
        ELSE LET event == found.data.items[1]
             IN /\ Len(Writes) = 1
                /\ Writes[1].eventId = event.id
                /\ Writes[1].method =
                      (IF pc = "handleDelete" THEN "events.delete" ELSE "events.update")
                /\ \/ StringIncludes(toLowerCase(event.summary), toLowerCase(searchQuery))
                   \/ StringIncludes(toLowerCase(event.description), toLowerCase(searchQuery))

\* two events listed, the second one matched through its description and deleted
TouchesOnlyTheEventFoundWitness ==
    /\ pc = "handleDelete"
    /\ searchQuery = <<"team">>
    /\ FoundSome
    /\ found.data.items[1].id = "event-4"
    /\ Len(apiCalls) = 2
    /\ apiCalls[2].eventId = "event-4"
    /\ result.success

\* ------------------------------------------------------------------ parseDate
\* the days of a month of the Gregorian calendar
DaysInMonth(year, month) ==
    IF month = 2
    THEN (IF year % 4 = 0 /\ (year % 100 # 0 \/ year % 400 = 0) THEN 29 ELSE 28)
    ELSE IF month \in {4, 6, 9, 11} THEN 30 ELSE 31

\* the Date at midnight UTC of a day: what a date-only string stands for
DateUTC(year, month, day) == [utcYear |-> year, utcMonth |-> month, utcDay |-> day]

\* the text has the date-only form YYYY-MM-DD of the date-time string format
IsDateOnlyForm(t) ==
    /\ Len(t) = 10
    /\ AllDigits(t, 1, 4)
    /\ t[5] = "-"
    /\ AllDigits(t, 6, 7)
    /\ t[8] = "-"
    /\ AllDigits(t, 9, 10)

\* new Date(dateString): the dates the engine may build, Null for an Invalid
\* Date.  A string in the date-only form with a month and a day of that month
\* is that day.  A day from the month's length + 1 to 31 is outside the
\* format, where Date.parse is implementation-defined: V8 carries the extra
\* days into the next month, other engines give an Invalid Date.
NewDate(t) ==
    IF ~IsDateOnlyForm(t) THEN {Null}
    ELSE LET year == parseInt(SubSeq(t, 1, 4))
             month == parseInt(SubSeq(t, 6, 7))
             day == parseInt(SubSeq(t, 9, 10))
         IN IF month \notin 1..12 \/ day \notin 1..31 THEN {Null}
            ELSE IF day <= DaysInMonth(year, month) THEN {DateUTC(year, month, day)}
            ELSE {Null,
                  IF month = 12 THEN DateUTC(year + 1, 1, day - DaysInMonth(year, month))
                  ELSE DateUTC(year, month + 1, day - DaysInMonth(year, month))}

\* parseDate(dateString): what it returns or throws
parseDate(t) ==
    {IF d = Null THEN [thrown |-> [message |-> <<"Invalid date: ">> \o t]]
     ELSE [returned |-> d] : d \in NewDate(t)}

\* ------------------------------------------------------------ parse machine
MonthDigits == {<<"0", "1">>, <<"0", "2">>, <<"0", "4">>, <<"1", "2">>, <<"1", "3">>}

DayDigits == {<<"0", "0">>, <<"1", "5">>, <<"2", "9">>, <<"3", "0">>, <<"3", "1">>}

YearDigits == {<<"2", "0", "2", "4">>, <<"2", "0", "2", "5">>}

\* the strings handed to the parsers: date strings, other expressions,
\* words and the empty string
ParseTexts ==
    {y \o <<"-">> \o m \o <<"-">> \o d : y \in YearDigits, m \in MonthDigits, d \in DayDigits}
    \cup {<<"invalid">>, <<>>, <<"Tomorrow">>, <<"3", "pm">>, <<"2", "5", ":", "0", "0">>,
          <<"3", "0", " ", "minutes">>, <<"1", "3", "/", "4", "5">>, <<"cancel">>}

InitParse ==
    /\ SuggestIdle
    /\ FlowIdle
    /\ AuthIdle
    /\ pc = "text"
    /\ text \in ParseTexts
    /\ shape = Null
    /\ today = 0
    /\ parsed = Null
    /\ entities = Null
    /\ ClientIdle
    /\ CallIdle
    /\ MergeIdle
    /\ QueryIdle
    /\ IntentIdle
    /\ UsageIdle

\* parsed = parseDate(text), or the error it throws
ParseDate ==
    /\ pc = "text"
    /\ parsed' \in parseDate(text)
    /\ pc' = "parseDate"
    /\ UNCHANGED <<text, shape, today, entities, mergeVars, queryVars, intentVars, usageVars, callVars, clientVars, authVars, flowVars, suggestVars>>

\* intent = detectIntent(text)
DetectIntentOfText ==
    /\ pc = "text"
    /\ intent' = detectIntent(text)
    /\ pc' = "intent"
    /\ UNCHANGED <<query, textVars, mergeVars, queryVars, usageVars, callVars, clientVars, authVars, flowVars, suggestVars>>

NextParse ==
    \/ ParseTimeExpression
    \/ ParseDuration
    \/ ParseDateExpression
    \/ DetectIntentOfText
    \/ ParseDate

SpecParse == InitParse /\ [][NextParse]_vars

\* the string names a day of the calendar
DenotesValidDate(t) ==
    /\ IsDateOnlyForm(t)
    /\ parseInt(SubSeq(t, 6, 7)) \in 1..12
    /\ parseInt(SubSeq(t, 9, 10)) \in
          1..DaysInMonth(parseInt(SubSeq(t, 1, 4)), parseInt(SubSeq(t, 6, 7)))

\* C24: parseTimeExpression, parseDuration and parseDateExpression return a
\* value or null and detectIntent an intent, without raising; parseDate
\* raises 'Invalid date: <input>' exactly when the string does not denote a
\* valid date and otherwise returns that date.
OnlyInvalidDatesRaise ==
    /\ pc \in {"time", "duration", "date"} => "thrown" \notin DOMAIN parsed
    /\ pc = "intent" => \E c \in 1..Len(INTENT_PATTERNS) : intent = INTENT_PATTERNS[c].intent
    /\ pc = "parseDate" =>
          IF DenotesValidDate(text)
          THEN parsed = [returned |-> DateUTC(parseInt(SubSeq(text, 1, 4)),
                                             parseInt(SubSeq(text, 6, 7)),
                                             parseInt(SubSeq(text, 9, 10)))]
          ELSE parsed = [thrown |-> [message |-> <<"Invalid date: ">> \o text]]

\* ------------------------------------------------------------------- tokens
\* 5 * 60 * 1000 milliseconds
FiveMinutes == 5 * TicksPerMinute

\* the tokens of a file or of a client: "" for a key that is not there, 0
\* for no expiry_date
Tokens(access, refreshToken, expiry) ==
    [access_token |-> access, refresh_token |-> refreshToken, expiry_date |-> expiry]

\* {} : no key at all
NoTokens == Tokens("", "", 0)

\* a token file: whether it exists, whether JSON.parse throws on it, what it holds
NoFile == [exists |-> FALSE, corrupt |-> FALSE, tokens |-> NoTokens]

CorruptFile == [exists |-> TRUE, corrupt |-> TRUE, tokens |-> NoTokens]

FileOf(tokens) == [exists |-> TRUE, corrupt |-> FALSE, tokens |-> tokens]

\* the files a token file can be at the time now
TokenFilesAt(now) ==
    {NoFile, CorruptFile} \cup
    {FileOf(Tokens(a, r, e)) :
        a \in {"", "old-access"}, r \in {"", "refresh"},
        e \in {0, now + FiveMinutes - 1, now + FiveMinutes, now + FiveMinutes + 1}}

\* loadTokens(oauth2Client): the credentials set on the client, the file they
\* came from, or the error thrown.  A project file that cannot be parsed is
\* passed over; a home file that cannot be parsed throws.
loadTokens(module, files) ==
    IF module # "auth.ts" /\ files.project.exists /\ ~files.project.corrupt
    THEN [thrown |-> "", credentials |-> files.project.tokens, from |-> "project"]
    ELSE IF files.home.exists
    THEN (IF files.home.corrupt
          THEN [thrown |-> "Failed to load saved tokens", credentials |-> NoTokens,
                from |-> "none"]
          ELSE [thrown |-> "", credentials |-> files.home.tokens, from |-> "home"])
    ELSE [thrown |-> "", credentials |-> NoTokens, from |-> "none"]

\* getTokenStoragePath(), and TOKEN_PATH of auth.ts
getTokenStoragePath(module, files, writable) ==
    IF module = "auth.ts" THEN "home"
    ELSE IF files.project.exists \/ writable THEN "project" ELSE "home"

\* the token is refreshed only once it has expired
NeedsRefreshOnceExpired(expiryDate, now) == expiryDate < now

\* expiryDate < fiveMinutesFromNow
NeedsRefresh(expiryDate, now) == expiryDate < now + FiveMinutes

\* what refreshAccessToken can answer: it throws without a refresh token
\* and may throw with one; the new credentials keep the refresh token
RefreshReplies(creds, now) ==
    {[ok |-> FALSE, credentials |-> NoTokens]} \cup
    (IF creds.refresh_token = "" THEN {}
     ELSE {[ok |-> TRUE,
            credentials |-> Tokens("new-access", creds.refresh_token, now + 2 * FiveMinutes)]})

\* ensureValidToken(oauth2Client) on the credentials loaded, with the answer
\* of refreshAccessToken and whether writeFileSync succeeds
ensureValidToken(module, creds, files, writable, now, reply, writeOk) ==
    IF creds.access_token = ""
    THEN [thrown |-> "No access token available. Please authenticate first.",
          credentials |-> creds, files |-> files, refresh |-> "none"]
    ELSE IF ~NeedsRefresh(creds.expiry_date, now)
    THEN [thrown |-> "", credentials |-> creds, files |-> files, refresh |-> "none"]
    ELSE IF ~reply.ok
    THEN [thrown |-> "Failed to refresh access token. Please re-authenticate.",
          credentials |-> creds, files |-> files, refresh |-> "failed"]
    ELSE IF ~writeOk
    THEN [thrown |-> "Failed to refresh access token. Please re-authenticate.",
          credentials |-> reply.credentials, files |-> files, refresh |-> "ok"]
    ELSE [thrown |-> "", credentials |-> reply.credentials,
          files |-> [files EXCEPT ![getTokenStoragePath(module, files, writable)] =
                                      FileOf(reply.credentials)],
          refresh |-> "ok"]

\* tokens.access_token || tokens.refresh_token
HasToken(tokens) == tokens.access_token # "" \/ tokens.refresh_token # ""

\* the file isAuthenticated() answers from
AuthenticatedFrom(module, files) ==
    IF module # "auth.ts" /\ files.project.exists /\ ~files.project.corrupt THEN "project"
    ELSE IF files.home.exists /\ ~files.home.corrupt THEN "home"
    ELSE "none"

\* isAuthenticated()
isAuthenticated(module, files) ==
    LET from == AuthenticatedFrom(module, files)
    IN from # "none" /\ HasToken(files[from].tokens)

\* ----------------------------------------------------------- token machine
InitAuth ==
    /\ SuggestIdle
    /\ FlowIdle
    /\ pc = "start"
    /\ authModule \in {"auth.ts", "project-and-home"}
    /\ clock \in Times
    /\ \E project \in TokenFilesAt(clock), home \in TokenFilesAt(clock) :
          tokenFiles = [project |-> project, home |-> home]
    /\ filesBefore = tokenFiles
    /\ projectWritable \in BOOLEAN
    /\ credentials = Null
    /\ refresh = "none"
    /\ outcome = Null
    /\ ClientIdle
    /\ CallIdle
    /\ MergeIdle
    /\ QueryIdle
    /\ IntentIdle
    /\ TextIdle
    /\ UsageIdle

\* getAuthenticatedClient(): loadTokens, then ensureValidToken; what either
\* throws is thrown on
GetAuthenticatedClient ==
    /\ pc = "start"
    /\ pc' = "getAuthenticatedClient"
    /\ LET loaded == loadTokens(authModule, tokenFiles)
       IN IF loaded.thrown # ""
          THEN /\ credentials' = loaded.credentials
               /\ outcome' = [thrown |-> loaded.thrown, from |-> loaded.from]
               /\ UNCHANGED <<tokenFiles, refresh>>
          ELSE \E reply \in RefreshReplies(loaded.credentials, clock), writeOk \in BOOLEAN :
                  LET r == ensureValidToken(authModule, loaded.credentials, tokenFiles,
                                            projectWritable, clock, reply, writeOk)
                  IN /\ credentials' = r.credentials
                     /\ tokenFiles' = r.files
                     /\ refresh' = r.refresh
                     /\ outcome' = [thrown |-> r.thrown, from |-> loaded.from]
    /\ UNCHANGED <<authModule, filesBefore, projectWritable, clock, flowVars, suggestVars>>
    /\ UNCHANGED <<mergeVars, queryVars, intentVars, textVars, usageVars, callVars, clientVars, flowVars, suggestVars>>

\* isAuthenticated()
IsAuthenticated ==
    /\ pc = "start"
    /\ pc' = "isAuthenticated"
    /\ outcome' = [returned |-> isAuthenticated(authModule, tokenFiles),
                   from |-> AuthenticatedFrom(authModule, tokenFiles)]
    /\ UNCHANGED <<authModule, tokenFiles, filesBefore, projectWritable, clock, credentials,
                   refresh>>
    /\ UNCHANGED <<mergeVars, queryVars, intentVars, textVars, usageVars, callVars, clientVars, flowVars, suggestVars>>

NextAuth == GetAuthenticatedClient \/ IsAuthenticated

SpecAuth == InitAuth /\ [][NextAuth]_vars

\* ------------------------------------------------- claims on the tokens
\* the call returned a client
Returned == pc = "getAuthenticatedClient" /\ outcome.thrown = ""

\* the file the next loadTokens reads holds these credentials
StoredAs(creds) ==
    LET next == loadTokens(authModule, tokenFiles)
    IN next.thrown = "" /\ next.from # "none" /\ next.credentials = creds

\* what getAuthenticatedClient ensures, for a token that counts as fresh
\* when Fresh(expiry_date) holds
RefreshContract(Fresh(_)) ==
    pc = "getAuthenticatedClient" =>
        /\ Returned =>
              /\ credentials.access_token # ""
              /\ \/ /\ Fresh(credentials.expiry_date)
                    /\ refresh = "none"
                    /\ tokenFiles = filesBefore
                 \/ /\ refresh = "ok"
                    /\ credentials.access_token = "new-access"
                    /\ StoredAs(credentials)
        /\ LET loaded == loadTokens(authModule, filesBefore)
           IN loaded.credentials.access_token = "" \/ refresh = "failed" =>
                 /\ ~Returned
                 /\ tokenFiles = filesBefore

\* C25 as stated: a client is returned only with a token that expires more
\* than 5 minutes ahead, untouched and with no file written, or with one
\* just refreshed, set on the client and stored; without an access token or
\* on a failed refresh the call throws and the files are as before.
RefreshUnlessMoreThanFiveMinutes ==
    RefreshContract(LAMBDA e : e > clock + FiveMinutes)

\* C25, amended: the token kept expires at least 5 minutes ahead.
RefreshUnlessAtLeastFiveMinutes ==
    RefreshContract(LAMBDA e : e >= clock + FiveMinutes)

\* a token about to expire was refreshed and stored
RefreshUnlessAtLeastFiveMinutesWitness ==
    /\ Returned
    /\ refresh = "ok"
    /\ tokenFiles # filesBefore
    /\ loadTokens(authModule, filesBefore).credentials.expiry_date = clock + FiveMinutes - 1
    /\ StoredAs(credentials)

\* C30: whenever isAuthenticated() is true of the token files,
\* getAuthenticatedClient on the same files, its refresh succeeding if
\* attempted, does not fail with 'No access token available', and both read
\* the same file.
AuthenticatedMeansClient ==
    pc = "getAuthenticatedClient" /\ refresh # "failed"
        /\ isAuthenticated(authModule, filesBefore) =>
            /\ outcome.thrown # "No access token available. Please authenticate first."
            /\ outcome.from = AuthenticatedFrom(authModule, filesBefore)

\* ------------------------------------------------------ authentication flow
MaxRequests == 3

\* what a request to the callback server carries in its query: a code, an
\* error, or neither
CallbackRequests ==
    {[kind |-> "code", value |-> "code-1"], [kind |-> "code", value |-> "code-2"],
     [kind |-> "error", value |-> "access_denied"], [kind |-> "other", value |-> ""]}

InitFlow ==
    /\ SuggestIdle
    /\ pc = "start"
    /\ FlowIdle
    /\ AuthIdle
    /\ ClientIdle
    /\ CallIdle
    /\ MergeIdle
    /\ QueryIdle
    /\ IntentIdle
    /\ TextIdle
    /\ UsageIdle

OtherThanFlow ==
    <<mergeVars, queryVars, intentVars, textVars, usageVars, callVars, clientVars, authVars, suggestVars>>

\* authenticate() up to `await callbackPromise`: loadCredentials, which may
\* throw, then startCallbackServer: the server listens, the timer is armed;
\* then the browser is opened, or the URL printed when that fails
Authenticate ==
    /\ pc = "start"
    /\ \E credentialsFound \in BOOLEAN :
          IF credentialsFound
          THEN /\ pc' = "awaiting"
               /\ serverListening' = TRUE
               /\ callbackPromise' = "pending"
               /\ timer' = "armed"
               /\ browserOpened' \in BOOLEAN
          ELSE /\ pc' = "failed"
               /\ UNCHANGED <<serverListening, callbackPromise, timer, browserOpened>>
    /\ UNCHANGED <<receivedCode, requests, prompted, exchanged, suggestVars>>
    /\ UNCHANGED OtherThanFlow

\* the request handler of http.createServer: a code is kept in receivedCode
\* and the server closed; an error closes the server; resolve is not called
HandleRequest ==
    /\ serverListening
    /\ Len(requests) < MaxRequests
    /\ \E req \in CallbackRequests :
          /\ requests' = Append(requests, req)
          /\ receivedCode' = IF req.kind = "code" THEN req.value ELSE receivedCode
          /\ serverListening' = (req.kind = "other")
    /\ UNCHANGED <<pc, callbackPromise, timer, prompted, exchanged, browserOpened, suggestVars>>
    /\ UNCHANGED OtherThanFlow

\* the setTimeout callback: without a code it closes the server and resolves
\* the promise with '', and authenticate() goes on to the manual prompt
Timeout ==
    /\ timer = "armed"
    /\ timer' = "fired"
    /\ IF receivedCode = ""
       THEN /\ serverListening' = FALSE
            /\ callbackPromise' = "resolved"
            /\ pc' = "prompting"
            /\ prompted' = TRUE
       ELSE UNCHANGED <<serverListening, callbackPromise, pc, prompted>>
    /\ UNCHANGED <<receivedCode, requests, exchanged, browserOpened, suggestVars>>
    /\ UNCHANGED OtherThanFlow

\* the answer to rl.question: an empty one ends the process, another one
\* becomes receivedCode and is handed to getTokensFromCode
ManualCode ==
    /\ pc = "prompting"
    /\ \E answer \in {"", "manual-code"} :
          IF answer = ""
          THEN /\ pc' = "failed"
               /\ UNCHANGED <<receivedCode, exchanged>>
          ELSE /\ receivedCode' = answer
               /\ exchanged' = answer
               /\ pc' = "exchanging"
    /\ UNCHANGED <<serverListening, callbackPromise, timer, requests, prompted, browserOpened, suggestVars>>
    /\ UNCHANGED OtherThanFlow

\* getTokensFromCode settles: the tokens are saved, or the catch block exits
Exchange ==
    /\ pc = "exchanging"
    /\ \E ok \in BOOLEAN : pc' = IF ok THEN "done" ELSE "failed"
    /\ UNCHANGED flowVars
    /\ UNCHANGED OtherThanFlow

\* the promise is pending, the server is closed and the timer has fired:
\* nothing is left to run and the process ends
ExitWhenIdle ==
    /\ pc = "awaiting"
    /\ callbackPromise = "pending"
    /\ ~serverListening
    /\ timer = "fired"
    /\ pc' = "exited"
    /\ UNCHANGED flowVars
    /\ UNCHANGED OtherThanFlow

NextFlow ==
    \/ Authenticate
    \/ HandleRequest
    \/ Timeout
    \/ ManualCode
    \/ Exchange
    \/ ExitWhenIdle

SpecFlow == InitFlow /\ [][NextFlow]_vars

\* the script takes its steps and the timer fires; requests and answers
\* come as they may
SpecFlowFair ==
    /\ SpecFlow
    /\ WF_vars(Authenticate)
    /\ WF_vars(Timeout)
    /\ WF_vars(Exchange)
    /\ WF_vars(ExitWhenIdle)

\* a request with a code has been handled
CodeArrived == \E i \in 1..Len(requests) : requests[i].kind = "code"

\* C26: once the callback server has received a code the flow eventually
\* hands a code to getTokensFromCode, and the manual prompt is shown only
\* after the timeout with no code received.
CodeLeadsToExchange ==
    /\ CodeArrived ~> exchanged # ""
    /\ [](prompted => timer = "fired" /\ ~CodeArrived)

\* ------------------------------------------------ the end of the window
\* C27: no slot returned by the client's findGaps or by the helper's
\* findAvailableSlots ends after the end of the window asked for, whatever
\* the busy slots, one starting after the window's end included.
GapsEndInWindow ==
    pc \in {"client", "mutual"} =>
        \A i \in 1..Len(gaps) : gaps[i].end <= endDate

\* -------------------------------------------------------- suggestOptimalTimes
\* Here instants are whole hours counted from the midnight that starts day
\* 0, so that the hour of the day can be read off them.
HoursPerDay == 24

\* Date.prototype.getHours
getHours(t) == t % HoursPerDay

\* getStartOfDay on hours
StartOfDayHour(t) == t - (t % HoursPerDay)

\* getEndOfDay on hours: 23:59:59.999, whose getHours() is 23
EndOfDayHour(t) == StartOfDayHour(t) + HoursPerDay - 1

\* getDurationMinutes on hours; up to the end of a day the minutes round to
\* those up to midnight
MinutesBetween(s, e) ==
    IF e = EndOfDayHour(e) THEN 60 * (e + 1 - s) ELSE 60 * (e - s)

\* Array.prototype.sort with (a, b) => keys[b] - keys[a]: larger keys first,
\* equal keys in the order they had
SortDescending(s, keys) ==
    LET rank(i) == Cardinality({j \in 1..Len(s) :
                        keys[j] > keys[i] \/ (keys[j] = keys[i] /\ j < i)}) + 1
    IN [r \in 1..Len(s) |-> s[CHOOSE i \in 1..Len(s) : rank(i) = r]]

\* the loop of the helper's findAvailableSlots over the sorted busy slots
RECURSIVE HourGapLoop(_, _, _, _, _)
HourGapLoop(sorted, i, current, minDur, acc) ==
    IF i > Len(sorted) THEN [gaps |-> acc, current |-> current]
    ELSE LET busy == sorted[i]
             gapDuration == MinutesBetween(current, busy.start)
             next == IF busy.end > current THEN busy.end ELSE current
         IN IF busy.start > current /\ gapDuration >= minDur
            THEN HourGapLoop(sorted, i + 1, next, minDur,
                             Append(acc, [start |-> current, end |-> busy.start,
                                          duration |-> gapDuration]))
            ELSE HourGapLoop(sorted, i + 1, next, minDur, acc)

\* the helper's findAvailableSlots(busySlots, startDate, endDate, minDuration)
\* on hours
findAvailableSlotsByHour(busy, start, end, minDur) ==
    LET sorted == SortDescending(busy, [i \in 1..Len(busy) |-> 0 - busy[i].start])
        r == HourGapLoop(sorted, 1, StartOfDayHour(start), minDur, <<>>)
        endOfPeriod == EndOfDayHour(end)
        gapDuration == MinutesBetween(r.current, endOfPeriod)
    IN IF r.current < endOfPeriod /\ gapDuration >= minDur
       THEN Append(r.gaps, [start |-> r.current, end |-> endOfPeriod,
                            duration |-> gapDuration])
       ELSE r.gaps

\* filterSlotsByTimeOfDay(slots, startHour, endHour)
filterSlotsByTimeOfDay(s, startHour, endHour) ==
    SelectSeq(s, LAMBDA slot :
        getHours(slot.start) >= startHour /\ getHours(slot.end) <= endHour)

\* available = filterSlotsByTimeOfDay(available, 9, 12), then
\* available = filterSlotsByTimeOfDay(available, 13, 17)
AvoidLunch(s) == filterSlotsByTimeOfDay(filterSlotsByTimeOfDay(s, 9, 12), 13, 17)

MaxResults == 5

\* getBestSlots(slots): longer slots first, the first maxResults of them
getBestSlots(s) ==
    LET sorted == SortDescending(s, [i \in 1..Len(s) |-> s[i].duration])
    IN SubSeq(sorted, 1, IF Len(sorted) < MaxResults THEN Len(sorted) ELSE MaxResults)

\* suggestOptimalTimes(busySlots, startDate, endDate, duration, preferences)
\* from the slots found
suggestOptimalTimes(found0, prefs) ==
    LET a1 == IF prefs.avoidLunch THEN AvoidLunch(found0) ELSE found0
        a2 == IF prefs.preferMorning
              THEN SortDescending(a1, [i \in 1..Len(a1) |->
                                         IF getHours(a1[i].start) < 12 THEN 1 ELSE 0])
              ELSE a1
        a3 == IF prefs.preferAfternoon
              THEN SortDescending(a2, [i \in 1..Len(a2) |->
                                         IF getHours(a2[i].start) >= 12 THEN 1 ELSE 0])
              ELSE a2
    IN getBestSlots(a3)

\* ----------------------------------------------------------- suggest machine
\* the hours busy slots start and end at: in day 0, and the morning of day 1
BusyHours == {0, 9, 11, 13, 15, 20, 33}

HourSlots ==
    {[start |-> p[1], end |-> p[2], duration |-> MinutesBetween(p[1], p[2])] :
        p \in {q \in BusyHours \X BusyHours : q[1] < q[2]}}

InitSuggest ==
    /\ pc = "asked"
    /\ \E n \in 0..MaxBusy : busySlots \in [1..n -> HourSlots]
    /\ preferences \in [avoidLunch : BOOLEAN, preferMorning : BOOLEAN,
                        preferAfternoon : BOOLEAN]
    /\ startDate = 9
    /\ endDate \in {17, 41}
    /\ minDuration \in {30, 120}
    /\ available = <<>>
    /\ suggested = <<>>
    /\ busyTimes = <<>>
    /\ gaps = <<>>
    /\ FlowIdle
    /\ AuthIdle
    /\ ClientIdle
    /\ CallIdle
    /\ MergeIdle
    /\ IntentIdle
    /\ TextIdle
    /\ UsageIdle

\* suggested = suggestOptimalTimes(busySlots, startDate, endDate, duration, preferences)
SuggestOptimalTimes ==
    /\ pc = "asked"
    /\ pc' = "suggested"
    /\ available' = findAvailableSlotsByHour(busySlots, startDate, endDate, minDuration)
    /\ suggested' = suggestOptimalTimes(available', preferences)
    /\ UNCHANGED <<busySlots, preferences>>
    /\ UNCHANGED <<mergeVars, queryVars, intentVars, textVars, usageVars, callVars, clientVars,
                   authVars, flowVars>>

NextSuggest == SuggestOptimalTimes

SpecSuggest == InitSuggest /\ [][NextSuggest]_vars

\* the slot lies in the morning hours 09:00-12:00 of one day
BeforeLunch(slot) ==
    /\ StartOfDayHour(slot.start) + 9 <= slot.start
    /\ slot.end <= StartOfDayHour(slot.start) + 12

\* the slot lies in the afternoon hours 13:00-17:00 of one day
AfterLunch(slot) ==
    /\ StartOfDayHour(slot.start) + 13 <= slot.start
    /\ slot.end <= StartOfDayHour(slot.start) + 17

\* C28: with avoidLunch the slots returned are available slots that lie
\* before lunch or after lunch, as many of them as there are up to 5; when
\* there is such an available slot the result is not empty.
AvoidLunchKeepsTheRest ==
    pc = "suggested" /\ preferences.avoidLunch =>
        LET good == {i \in 1..Len(available) :
                        BeforeLunch(available[i]) \/ AfterLunch(available[i])}
        IN /\ \A k \in 1..Len(suggested) :
                 \E i \in good : suggested[k] = available[i]
           /\ Len(suggested) = (IF Cardinality(good) < MaxResults THEN Cardinality(good)
                                ELSE MaxResults)
           /\ good # {} => suggested # <<>>

====
